---- MODULE Spec2Model ----
(* State-machine model of src/server.js (Echo YTMusic proxy backend):      *)
(* the round-robin cursors, getYouTubeInfo (retrying resolver),            *)
(* getStreamFromInvidious (mirror fallback) and the /api/stream and        *)
(* /api/proxy handlers that compose them.                                  *)
(*                                                                         *)
(* Node runs one callback at a time and drains the promise continuations   *)
(* it made runnable before it takes the next I/O or timer event.  An       *)
(* action is therefore one such event (a request arriving, an outbound     *)
(* call settling, a timer firing, a stream event) together with all the    *)
(* code that runs until every function involved is suspended at an await   *)
(* or has finished; calls in flight interleave between actions only.       *)
EXTENDS Integers, Sequences, FiniteSets, TLC

(***************************************************************************)
(* Bounds of the model.                                                    *)
(***************************************************************************)
\* the calls / requests that may be in flight at the same time
Calls == {"c1", "c2"}
\* the calls that may be requests to a route handler
Requests == {"c1"}
\* largest retryCount handed to getYouTubeInfo when it is called on its own
MaxRetryCount == 5
\* longest stream list (audioStreams, adaptiveFormats) a mirror answers with
MaxStreams == 2
\* the bitrate values a stream entry may carry (it may also carry none)
Bitrates == {0, 128000}
\* the largest count the rate limiter keeps for an origin
MaxHits == 32
\* the number of rate-limiter windows the clock runs through
MaxWindows == 2
\* longest generated thumbnail url
MaxUrlLen == 2
\* longest thumbnail list handed to the rewriter
MaxThumbnails == 2
\* longest list of result items handed to the rewriter
MaxItems == 2

(***************************************************************************)
(* Program constants.                                                      *)
(***************************************************************************)
YOUTUBE_CLIENTS == <<"ANDROID", "ANDROID_MUSIC", "WEB", "WEB_CREATOR", "TV", "DESKTOP">>

INVIDIOUS_INSTANCES ==
    <<"https://invidious.kavin.rocks", "https://invidious.snopyta.org",
      "https://yewtu.be", "https://invidious.projectsegfau.lt",
      "https://iv.datura.network", "https://invidious.tube",
      "https://invidious.namazso.eu">>

PIPED_INSTANCES ==
    <<"https://pipedapi.kavin.rocks", "https://pipedapi.adminforge.de",
      "https://watchapi.whatever.social", "https://api.piped.yt",
      "https://pipedapi.lunar.icu">>

\* the default of the retryCount parameter of getYouTubeInfo
DefaultRetryCount == 5

\* error.statusCode of a failed ytdl.getInfo: 429, 403, or anything else (0)
StatusCodes == {429, 403, 0}

RECURSIVE Pow2(_)
\* Math.pow(2, i)
Pow2(n) == IF n = 0 THEN 1 ELSE 2 * Pow2(n - 1)

(***************************************************************************)
(* State.                                                                  *)
(***************************************************************************)
VARIABLES
    clientIndex,    \* let clientIndex (cursor into YOUTUBE_CLIENTS)
    invidiousIndex, \* let invidiousIndex (cursor into INVIDIOUS_INSTANCES)
    pipedIndex,     \* let pipedIndex (cursor into PIPED_INSTANCES)
    yt,             \* per call: the frame of getYouTubeInfo
    mir,            \* per call: the frame of getStreamFromInvidious
    req,            \* per call: the frame of the route handler serving it
    isInitialized,  \* let isInitialized (readiness of the catalog gateway)
    ytmusicInit,    \* where initializeYTMusic stands
    limiter,        \* per client origin: the counters of the rate limiter
    now,            \* the clock, in ms
    rw              \* the frame of a call of the thumbnail rewriter

vars == <<clientIndex, invidiousIndex, pipedIndex, yt, mir, req,
          isInitialized, ytmusicInit, limiter, now, rw>>

\* the state getYouTubeInfo works on, and the state the mirror resolver works on
ytVars == <<clientIndex, yt>>
mirVars == <<invidiousIndex, pipedIndex, mir>>

\* the state of the catalog gateway's start-up
gatewayVars == <<isInitialized, ytmusicInit>>

\* the state no resolver works on: the gateway's start-up, the rate limiter,
\* the clock and the thumbnail rewriter
envVars == <<gatewayVars, limiter, now, rw>>

NoError == [origin |-> "none", attempt |-> 0, statusCode |-> 0]

\* the error ytdl.getInfo rejects with on the n-th upstream attempt of a call
UpstreamError(n, status) == [origin |-> "youtube", attempt |-> n, statusCode |-> status]

\* what ytdl.chooseFormat / ytdl.downloadFromInfo throw on the info of a
\* successful getYouTubeInfo
FormatError == [origin |-> "format", attempt |-> 0, statusCode |-> 0]

\* what an await of getStreamFromInvidious would reject with, did it throw
MirrorError == [origin |-> "mirror", attempt |-> 0, statusCode |-> 0]

\* the error an operation of the catalog gateway rejects with, or the code
\* of a catalog handler throws
GatewayError == [origin |-> "ytmusic", attempt |-> 0, statusCode |-> 0]

NoResult == [clientName |-> "", method |-> ""]

\* frame of a call that has not entered getYouTubeInfo
YtIdle ==
    [pc |-> "idle", retryCount |-> 0, i |-> 0, clientName |-> "",
     lastError |-> NoError, waitTime |-> 0,
     \* the clientName in the requestOptions of the latest ytdl.getInfo
     request |-> "",
     \* the outcome: the object returned, the error thrown
     result |-> NoResult, thrown |-> NoError,
     \* history: upstream attempts made, identities drawn, the latest wait
     \* that has elapsed, waits slept, the latest attempt's error (none if it
     \* succeeded), whether an attempt has succeeded
     attempts |-> 0, draws |-> 0, prevWait |-> 0, waits |-> 0,
     attemptError |-> NoError, attemptOk |-> FALSE]

\* the null getStreamFromInvidious returns when no mirror has a stream
NullStream == [success |-> FALSE, url |-> 0, method |-> "", instance |-> ""]

\* no response
NoSource == [method |-> "", instance |-> "", best |-> 0]

\* frame of a call that has not entered getStreamFromInvidious
MirIdle ==
    [pc |-> "idle", i |-> 0, instance |-> "",
     \* the mirror (ecosystem, base URL) the axios.get in flight is sent to
     request |-> [method |-> "", instance |-> ""],
     \* the value returned
     result |-> NullStream,
     \* history: the queries sent to each ecosystem; the responses that gave
     \* no stream; the instances of the current loop's list queried so far;
     \* whether the call has queried an instance it had queried before; the
     \* response that gave the stream returned
     queries |-> [piped |-> 0, invidious |-> 0], failed |-> 0,
     seen |-> {}, repeated |-> FALSE,
     source |-> NoSource]

\* no response sent
NoResponse ==
    [status |-> 0, body |-> "", url |-> [kind |-> "", entry |-> 0],
     source |-> [label |-> "", instance |-> ""], message |-> NoError]

\* `album` while it is undefined; of an album the model keeps whether songs
\* and tracks are absent ("none"), an empty list or a list of tracks, and the
\* lookup it came from
NoAlbum == [found |-> FALSE, songs |-> "none", tracks |-> "none", from |-> ""]

\* frame of a call that is not a request to a route handler
ReqIdle ==
    [pc |-> "idle", route |-> "", ytError |-> NoError, error |-> NoError,
     headersSent |-> FALSE, response |-> NoResponse,
     \* history: the responses sent, the operations of the catalog gateway
     \* invoked, and those of them invoked while isInitialized was false
     sent |-> 0, gatewayOps |-> 0, notReadyOps |-> 0,
     \* /api/album: `album`, `fetchError`, what the request carries;
     \* history: the lookups attempted and what the first two yielded
     album |-> NoAlbum, fetchError |-> FALSE,
     knownPrefix |-> FALSE, albumName |-> FALSE,
     tiers |-> <<>>, direct |-> "", listing |-> ""]

\* the client origins (req.ip) the rate limiter tells apart
Origins == {"o1", "o2"}

\* the counters of an origin that has sent no request: the hits of its
\* window and the time the window ends; history: the verdict on its latest
\* request, the time of that request, the time of the first request of the
\* window and the number of windows begun
LimiterIdle ==
    [hits |-> 0, resetTime |-> 0, last |-> "none", lastAt |-> 0, firstAt |-> 0,
     windows |-> 0]

Init ==
    /\ clientIndex = 0
    /\ invidiousIndex = 0
    /\ pipedIndex = 0
    /\ yt = [c \in Calls |-> YtIdle]
    /\ mir = [c \in Calls |-> MirIdle]
    /\ req = [c \in Calls |-> ReqIdle]
    /\ isInitialized = FALSE
    /\ ytmusicInit = "idle"
    /\ limiter = [o \in Origins |-> LimiterIdle]
    /\ now = 0
    /\ rw = [pc |-> "idle"]

\* the call c is not in use
Unused(c) == yt[c].pc = "idle" /\ mir[c].pc = "idle" /\ req[c].pc = "idle"

(***************************************************************************)
(* The route handlers: what they do once a resolver has settled.           *)
(***************************************************************************)
\* the handler sends a response and is done; headers go out with it
Send(h, response) ==
    [h EXCEPT !.pc = "done", !.response = response, !.sent = @ + 1,
              !.headersSent = TRUE]

\* a fallback that reports the failure of the mirrors instead
FallbackFailureOfMirrors(ytError) == MirrorError

\* what the inner catch block throws when the mirrors gave nothing: throw ytError
FallbackFailure(ytError) == ytError

\* res.status(500).json({ error: 'Failed to get stream URL', message: error.message })
StreamErrorResponse(error) ==
    [NoResponse EXCEPT !.status = 500, !.body = "Failed to get stream URL",
                       !.message = error]

\* /api/stream after `await getYouTubeInfo` returned: res.json of the primary path
StreamPrimary(h) ==
    Send(h, [NoResponse EXCEPT
                !.status = 200,
                !.url = [kind |-> "/api/proxy", entry |-> 0],
                !.source = [label |-> "YouTube (ytdl-core)", instance |-> ""]])

\* the error that reaches the outer catch of a handler whose call of
\* getStreamFromInvidious settled with the frame m without a stream
OuterError(h, m) ==
    IF m.pc = "thrown" THEN MirrorError ELSE FallbackFailure(h.ytError)

\* /api/stream after `await getStreamFromInvidious` settled with the frame m:
\* res.json of the fallback path, or throw ytError into the outer catch,
\* which answers 500 with error.message
StreamAfterMirrors(h, m) ==
    IF m.pc = "returned" /\ m.result # NullStream
    THEN Send(h, [NoResponse EXCEPT
                    !.status = 200,
                    !.url = [kind |-> "mirror", entry |-> m.result.url],
                    !.source = [label |-> "Invidious", instance |-> m.result.instance]])
    ELSE Send([h EXCEPT !.error = OuterError(h, m)], StreamErrorResponse(OuterError(h, m)))

\* /api/proxy after `await getStreamFromInvidious` settled with the frame m:
\* res.redirect(streamData.url), or throw ytError into the outer catch, which
\* answers 500 unless headers were sent
ProxyAfterMirrors(h, m) ==
    IF m.pc = "returned" /\ m.result # NullStream
    THEN Send(h, [NoResponse EXCEPT
                    !.status = 302,
                    !.url = [kind |-> "mirror", entry |-> m.result.url]])
    ELSE IF ~h.headersSent
    THEN Send([h EXCEPT !.error = OuterError(h, m)],
              [NoResponse EXCEPT !.status = 500, !.body = "Failed to proxy stream"])
    ELSE [h EXCEPT !.pc = "done", !.error = OuterError(h, m)]

\* what stays of the frame m of getStreamFromInvidious with the handler that
\* awaited it: the outcome
MirTaken(m) ==
    [MirIdle EXCEPT !.pc = m.pc, !.result = m.result, !.source = m.source]

\* getStreamFromInvidious has settled with the frame m for the caller whose
\* frame is h: a caller that is a handler goes on to its response
AfterGetStreamFromInvidious(c, m, h) ==
    /\ mir' = [mir EXCEPT ![c] = IF h.route = "" THEN m ELSE MirTaken(m)]
    /\ req' = [req EXCEPT ![c] =
           CASE h.route = "stream" -> StreamAfterMirrors(h, m)
             [] h.route = "proxy" -> ProxyAfterMirrors(h, m)
             [] OTHER -> h]

(***************************************************************************)
(* What a mirror may answer.                                               *)
(***************************************************************************)
\* f.type values, as character sequences
AUDIO_WEBM == <<"a", "u", "d", "i", "o", "/", "w", "e", "b", "m">>
VIDEO_MP4 == <<"v", "i", "d", "e", "o", "/", "m", "p", "4">>

\* the entry at position k of a Piped audioStreams list: its url names the
\* position, its bitrate may be absent
PipedEntries(k) ==
    {[url |-> k]} \cup {[url |-> k, bitrate |-> b] : b \in Bitrates}

\* the entry at position k of an Invidious adaptiveFormats list: the type
\* may be absent as well
InvidiousEntries(k) ==
    PipedEntries(k)
    \cup {[url |-> k, type |-> t] : t \in {AUDIO_WEBM, VIDEO_MP4}}
    \cup {[url |-> k, bitrate |-> b, type |-> t] :
            b \in Bitrates, t \in {AUDIO_WEBM, VIDEO_MP4}}

PipedStreamLists ==
    UNION {{s \in [1..n -> UNION {PipedEntries(k) : k \in 1..n}] :
              \A k \in 1..n : s[k].url = k} : n \in 0..MaxStreams}

InvidiousStreamLists ==
    UNION {{s \in [1..n -> UNION {InvidiousEntries(k) : k \in 1..n}] :
              \A k \in 1..n : s[k].url = k} : n \in 0..MaxStreams}

\* outcomes of `await axios.get(...)` and of reading response.data:
\*   rejected  - the promise rejects (network error, timeout, HTTP status)
\*   nodata    - no data, or no audioStreams / adaptiveFormats in it
\*   malformed - the field is there but is no array (sort / filter throw)
\*   data      - the field is the list `streams`
MirrorFailures ==
    {[kind |-> k, streams |-> <<>>] : k \in {"rejected", "nodata", "malformed"}}

PipedResponses ==
    MirrorFailures \cup {[kind |-> "data", streams |-> s] : s \in PipedStreamLists}

InvidiousResponses ==
    MirrorFailures \cup {[kind |-> "data", streams |-> s] : s \in InvidiousStreamLists}

(***************************************************************************)
(* getStreamFromInvidious                                                  *)
(***************************************************************************)
\* String.prototype.startsWith
StartsWith(str, prefix) ==
    /\ Len(str) >= Len(prefix)
    /\ SubSeq(str, 1, Len(prefix)) = prefix

\* (x.bitrate || 0)
BitrateOrZero(e) == IF "bitrate" \in DOMAIN e THEN e.bitrate ELSE 0

RECURSIVE InsertLast(_, _)
\* InsertByBitrate that puts an entry before the entries of equal bitrate
InsertLast(sorted, e) ==
    IF sorted = <<>> THEN <<e>>
    ELSE IF BitrateOrZero(Head(sorted)) > BitrateOrZero(e)
         THEN <<Head(sorted)>> \o InsertLast(Tail(sorted), e)
         ELSE <<e>> \o sorted

RECURSIVE InsertByBitrate(_, _)
\* where the comparator (a, b) => (b.bitrate || 0) - (a.bitrate || 0) of the
\* stable Array.prototype.sort puts an entry that came after those of
\* `sorted`: behind every entry whose bitrate is not smaller
InsertByBitrate(sorted, e) ==
    IF sorted = <<>> THEN <<e>>
    ELSE IF BitrateOrZero(Head(sorted)) >= BitrateOrZero(e)
         THEN <<Head(sorted)>> \o InsertByBitrate(Tail(sorted), e)
         ELSE <<e>> \o sorted

RECURSIVE SortByBitrate(_)
\* streams.sort((a, b) => (b.bitrate || 0) - (a.bitrate || 0))
SortByBitrate(streams) ==
    IF streams = <<>> THEN <<>>
    ELSE InsertByBitrate(SortByBitrate(SubSeq(streams, 1, Len(streams) - 1)),
                         streams[Len(streams)])

\* adaptiveFormats.filter(f => f.type && f.type.startsWith('audio'))
AudioFormats(adaptiveFormats) ==
    SelectSeq(adaptiveFormats,
              LAMBDA f : "type" \in DOMAIN f /\ StartsWith(f.type, <<"a", "u", "d", "i", "o">>))

\* what the body of one loop iteration ends in: a return of the entry with
\* `url`, the next iteration, a throw
Return(url) == [kind |-> "return", url |-> url]
Continue == [kind |-> "continue", url |-> 0]
Throw == [kind |-> "throw", url |-> 0]

\* the try block of the Piped loop on a response
PipedTry(resp) ==
    IF resp.kind \in {"rejected", "malformed"} THEN Throw
    ELSE IF resp.kind = "nodata" THEN Continue
    ELSE IF Len(resp.streams) > 0
         THEN Return(SortByBitrate(resp.streams)[1].url)
         ELSE Continue

\* the try block of the Invidious loop on a response
InvidiousTry(resp) ==
    IF resp.kind \in {"rejected", "malformed"} THEN Throw
    ELSE IF resp.kind = "nodata" THEN Continue
    ELSE LET audioFormats == AudioFormats(resp.streams)
         IN  IF Len(audioFormats) > 0
             THEN Return(SortByBitrate(audioFormats)[1].url)
             ELSE Continue

\* a catch block that logs and throws the error on
CatchRethrow(outcome) == outcome

\* the catch block of either loop: console.warn, then on to the next iteration
CatchBlock(outcome) == IF outcome.kind = "throw" THEN Continue ELSE outcome

\* the url of the earliest entry of greatest bitrate among the entries at
\* the positions `idx` of a response, 0 when there is none (history only)
EarliestBest(streams, idx) ==
    IF idx = {} THEN 0
    ELSE LET k == CHOOSE k \in idx :
                    \A j \in idx :
                        /\ BitrateOrZero(streams[j]) <= BitrateOrZero(streams[k])
                        /\ BitrateOrZero(streams[j]) = BitrateOrZero(streams[k]) => k <= j
         IN  streams[k].url

\* the positions of the entries of an adaptiveFormats list whose type is audio
AudioPositions(streams) ==
    {k \in DOMAIN streams :
        /\ "type" \in DOMAIN streams[k]
        /\ Len(streams[k].type) >= 5
        /\ \A n \in 1..5 : streams[k].type[n] = AUDIO_WEBM[n]}

\* every way one iteration of the Piped loop can end, over all responses:
\* what the try and catch blocks make of the response, and the url the
\* response's earliest entry of greatest bitrate carries
PipedIterations ==
    {[outcome |-> CatchBlock(PipedTry(resp)),
      best |-> EarliestBest(resp.streams, DOMAIN resp.streams)] : resp \in PipedResponses}

\* every way one iteration of the Invidious loop can end, over all responses
InvidiousIterations ==
    {[outcome |-> CatchBlock(InvidiousTry(resp)),
      best |-> EarliestBest(resp.streams, AudioPositions(resp.streams))] :
        resp \in InvidiousResponses}

\* the value getNextPiped returns and the cursor it leaves
NextPipedInstance == PIPED_INSTANCES[pipedIndex + 1]
NextPipedIndex == (pipedIndex + 1) % Len(PIPED_INSTANCES)

\* the value getNextInvidious returns and the cursor it leaves
NextInvidiousInstance == INVIDIOUS_INSTANCES[invidiousIndex + 1]
NextInvidiousIndex == (invidiousIndex + 1) % Len(INVIDIOUS_INSTANCES)

\* the frame once axios.get has been sent to `instance` of ecosystem `method`
\* in iteration idx of that ecosystem's loop
Querying(f, method, idx, instance) ==
    [f EXCEPT !.pc = method, !.i = idx, !.instance = instance,
              !.request = [method |-> method, instance |-> instance],
              !.queries = [@ EXCEPT ![method] = @ + 1],
              !.seen = IF idx = 0 THEN {instance} ELSE @ \cup {instance},
              !.repeated = @ \/ (idx > 0 /\ instance \in f.seen)]

\* the frame of a call that has left getStreamFromInvidious: the locals are
\* gone, the outcome and the history stay
MirExit(f) ==
    [f EXCEPT !.i = 0, !.instance = "", !.seen = {},
              !.request = [method |-> "", instance |-> ""]]

\* top of the Invidious loop with loop variable idx, h being the frame of
\* the caller: the next instance is queried, or the loop is over and null
\* is returned
InvidiousLoop(c, f, idx, h) ==
    IF idx < Len(INVIDIOUS_INSTANCES)
    THEN /\ invidiousIndex' = NextInvidiousIndex
         /\ mir' = [mir EXCEPT ![c] = Querying(f, "invidious", idx, NextInvidiousInstance)]
         /\ req' = [req EXCEPT ![c] = h]
         /\ UNCHANGED pipedIndex
    ELSE /\ AfterGetStreamFromInvidious(
                c, MirExit([f EXCEPT !.pc = "returned", !.result = NullStream]), h)
         /\ UNCHANGED <<invidiousIndex, pipedIndex>>

\* PipedLoop that stops one instance short of the list
PipedLoopShort(c, f, idx, h) ==
    IF idx < Len(PIPED_INSTANCES) - 1
    THEN /\ pipedIndex' = NextPipedIndex
         /\ mir' = [mir EXCEPT ![c] = Querying(f, "piped", idx, NextPipedInstance)]
         /\ req' = [req EXCEPT ![c] = h]
         /\ UNCHANGED invidiousIndex
    ELSE InvidiousLoop(c, f, 0, h)

\* top of the Piped loop with loop variable idx, h being the frame of the
\* caller: the next instance is queried, or the loop is over and the
\* Invidious loop starts
PipedLoop(c, f, idx, h) ==
    IF idx < Len(PIPED_INSTANCES)
    THEN /\ pipedIndex' = NextPipedIndex
         /\ mir' = [mir EXCEPT ![c] = Querying(f, "piped", idx, NextPipedInstance)]
         /\ req' = [req EXCEPT ![c] = h]
         /\ UNCHANGED invidiousIndex
    ELSE InvidiousLoop(c, f, 0, h)

\* getStreamFromInvidious(videoId) is called by the caller whose frame is h:
\* runs to the first await
EnterGetStreamFromInvidious(c, h) == PipedLoop(c, MirIdle, 0, h)

\* the instance a returned object is tagged with
TagInstance(f) == f.instance

\* the frame after an iteration returned the entry with `url` from a response
\* whose earliest entry of greatest bitrate carries `best`
Returned(f, url, best) ==
    MirExit([f EXCEPT !.pc = "returned",
                      !.result = [success |-> TRUE, url |-> url, method |-> f.pc,
                                  instance |-> TagInstance(f)],
                      !.source = [method |-> f.request.method,
                                  instance |-> f.request.instance, best |-> best]])

\* the axios.get in flight settles and the rest of the iteration runs, in
\* one of the ways `iterations` of the loop of ecosystem `method`
MirrorResponds(c, iterations, method) ==
    \E it \in iterations :
        CASE it.outcome.kind = "return" ->
               /\ AfterGetStreamFromInvidious(
                      c, Returned(mir[c], it.outcome.url, it.best), req[c])
               /\ UNCHANGED <<invidiousIndex, pipedIndex>>
          [] it.outcome.kind = "continue" ->
               IF method = "piped"
               THEN PipedLoop(c, [mir[c] EXCEPT !.failed = @ + 1], mir[c].i + 1, req[c])
               ELSE InvidiousLoop(c, [mir[c] EXCEPT !.failed = @ + 1], mir[c].i + 1, req[c])
          [] it.outcome.kind = "throw" ->
               /\ AfterGetStreamFromInvidious(
                      c, MirExit([mir[c] EXCEPT !.pc = "thrown"]), req[c])
               /\ UNCHANGED <<invidiousIndex, pipedIndex>>

\* the axios.get to a Piped instance settles
PipedResponds(c) ==
    /\ UNCHANGED envVars
    /\ mir[c].pc = "piped"
    /\ MirrorResponds(c, PipedIterations, "piped")
    /\ UNCHANGED ytVars

\* the axios.get to an Invidious instance settles
InvidiousResponds(c) ==
    /\ UNCHANGED envVars
    /\ mir[c].pc = "invidious"
    /\ MirrorResponds(c, InvidiousIterations, "invidious")
    /\ UNCHANGED ytVars

\* a caller invokes getStreamFromInvidious on its own
CallGetStreamFromInvidious(c) ==
    /\ UNCHANGED envVars
    /\ Unused(c)
    /\ EnterGetStreamFromInvidious(c, req[c])
    /\ UNCHANGED ytVars

NextMirror ==
    \E c \in Calls :
        \/ CallGetStreamFromInvidious(c)
        \/ PipedResponds(c)
        \/ InvidiousResponds(c)

SpecMirror == Init /\ [][NextMirror]_vars

(***************************************************************************)
(* getNextClient                                                           *)
(***************************************************************************)
\* a getNextClient that advances the cursor before it reads the identity
NextClientNameAfterAdvance == YOUTUBE_CLIENTS[((clientIndex + 1) % Len(YOUTUBE_CLIENTS)) + 1]

\* the value getNextClient returns
NextClientName == YOUTUBE_CLIENTS[clientIndex + 1]
\* the cursor after getNextClient
NextClientIndex == (clientIndex + 1) % Len(YOUTUBE_CLIENTS)

(***************************************************************************)
(* The route handlers: what they do once getYouTubeInfo has settled.       *)
(***************************************************************************)
\* what stays of the frame f of getYouTubeInfo with the handler that awaited
\* it: the outcome ({ info, clientName } or the error)
YtTaken(f) ==
    [YtIdle EXCEPT !.pc = f.pc, !.retryCount = f.retryCount, !.result = f.result,
                   !.thrown = f.thrown, !.attemptOk = f.attemptOk]

\* the handler's catch (ytError) block on the error `ytError`: the consts of
\* the try block are out of scope, getStreamFromInvidious is called
HandlerFallback(c, f, h, ytError) ==
    /\ yt' = [yt EXCEPT ![c] = [YtTaken(f) EXCEPT !.result = NoResult]]
    /\ EnterGetStreamFromInvidious(
           c, [h EXCEPT !.pc = "getStreamFromInvidious", !.ytError = ytError])

\* getYouTubeInfo has settled with the frame f for the caller whose frame is
\* h: a caller that is a handler goes on inside its try block or in its
\* catch (ytError) block
AfterGetYouTubeInfo(c, f, h) ==
    CASE h.route = "stream" /\ f.pc = "returned" ->
           \* filterFormats, res.json of the primary path
           /\ yt' = [yt EXCEPT ![c] = YtTaken(f)]
           /\ req' = [req EXCEPT ![c] = StreamPrimary(h)]
           /\ UNCHANGED mirVars
      [] h.route = "proxy" /\ f.pc = "returned" ->
           \* ytdl.chooseFormat gave a format: downloadFromInfo,
           \* stream.on('error'), stream.pipe(res)
           \/ /\ yt' = [yt EXCEPT ![c] = YtTaken(f)]
              /\ req' = [req EXCEPT ![c] = [h EXCEPT !.pc = "streaming"]]
              /\ UNCHANGED mirVars
           \* it gave none: res.status(404).send('No suitable format found')
           \/ /\ yt' = [yt EXCEPT ![c] = YtTaken(f)]
              /\ req' = [req EXCEPT ![c] =
                     Send(h, [NoResponse EXCEPT !.status = 404,
                                                !.body = "No suitable format found"])]
              /\ UNCHANGED mirVars
           \* chooseFormat or downloadFromInfo threw inside the try block
           \/ HandlerFallback(c, f, h, FormatError)
      [] h.route \in {"stream", "proxy"} /\ f.pc = "thrown" ->
           HandlerFallback(c, f, h, f.thrown)
      [] OTHER ->
           /\ yt' = [yt EXCEPT ![c] = f]
           /\ req' = [req EXCEPT ![c] = h]
           /\ UNCHANGED mirVars

(***************************************************************************)
(* getYouTubeInfo                                                          *)
(***************************************************************************)
\* BackoffWait with one base delay for every class of failure
BackoffWaitOneBase(status, i, retryCount) ==
    IF status = 429 THEN Pow2(i) * 1000
    ELSE IF i < retryCount - 1 THEN Pow2(i) * 1000
    ELSE 0

\* BackoffWait with a linear instead of an exponential schedule for the
\* failures that carry no rate-limit signal
BackoffWaitLinear(status, i, retryCount) ==
    IF status = 429 THEN Pow2(i) * 2000
    ELSE IF i < retryCount - 1 THEN (i + 1) * 1000
    ELSE 0

\* the wait the catch block sleeps after attempt index i failed with
\* `status` (0: the catch block falls through without sleeping)
BackoffWait(status, i, retryCount) ==
    IF status = 429 THEN Pow2(i) * 2000
    ELSE IF status = 403 /\ i < retryCount - 1 THEN Pow2(i) * 1000
    ELSE IF i < retryCount - 1 THEN Pow2(i) * 1000
    ELSE 0

\* the error the function throws after the loop
ThrownError(f) == f.lastError

\* CatchLastError that keeps the first error once one is recorded
CatchFirstError(f, error) == IF f.lastError = NoError THEN error ELSE f.lastError

\* the value of lastError after the catch block has run on `error`
CatchLastError(f, error) == error

\* the frame of a call that has left getYouTubeInfo: the locals are gone,
\* the outcome and the history stay
YtExit(f) ==
    [f EXCEPT !.i = 0, !.clientName = "", !.lastError = NoError,
              !.waitTime = 0, !.prevWait = 0]

\* top of the for loop with loop variable value idx, h being the frame of
\* the caller: either the next attempt is issued (getNextClient,
\* ytdl.getInfo, suspend at the await) or the loop is over and lastError is
\* thrown
LoopHead(c, f, idx, h) ==
    IF idx < f.retryCount
    THEN /\ clientIndex' = NextClientIndex
         /\ yt' = [yt EXCEPT ![c] =
                [f EXCEPT !.pc = "getInfo", !.i = idx,
                          !.clientName = NextClientName,
                          !.request = NextClientName,
                          !.attempts = @ + 1, !.draws = @ + 1]]
         /\ req' = [req EXCEPT ![c] = h]
         /\ UNCHANGED mirVars
    ELSE /\ clientIndex' = clientIndex
         /\ AfterGetYouTubeInfo(
                c, YtExit([f EXCEPT !.pc = "thrown", !.thrown = ThrownError(f)]), h)

\* getYouTubeInfo(videoId, retryCount) is called by the caller whose frame is
\* h: runs to the first await
EnterGetYouTubeInfo(c, retryCount, h) ==
    LoopHead(c, [YtIdle EXCEPT !.retryCount = retryCount], 0, h)

\* ReturnValue that names the identity by the attempt index instead of the
\* identity the attempt drew from the shared cursor
ReturnValueByIndex(f) ==
    [clientName |-> YOUTUBE_CLIENTS[(f.i % Len(YOUTUBE_CLIENTS)) + 1], method |-> "ytdl"]

\* the object the function returns: { info, clientName, method: 'ytdl' }
ReturnValue(f) == [clientName |-> f.clientName, method |-> "ytdl"]

\* await ytdl.getInfo resolves: return { info, clientName, method }
GetInfoSucceeds(c) ==
    /\ UNCHANGED envVars
    /\ yt[c].pc = "getInfo"
    /\ clientIndex' = clientIndex
    /\ AfterGetYouTubeInfo(
           c, YtExit([yt[c] EXCEPT !.pc = "returned", !.result = ReturnValue(yt[c]),
                                   !.attemptError = NoError, !.attemptOk = TRUE]),
           req[c])

\* await ytdl.getInfo rejects: the catch block
GetInfoFails(c) ==
    /\ UNCHANGED envVars
    /\ yt[c].pc = "getInfo"
    /\ \E status \in StatusCodes :
         LET error == UpstreamError(yt[c].attempts, status)
             f == [yt[c] EXCEPT !.lastError = CatchLastError(yt[c], error),
                                !.attemptError = error]
             w == BackoffWait(status, f.i, f.retryCount)
         IN  IF w > 0
             THEN /\ yt' = [yt EXCEPT ![c] =
                        [f EXCEPT !.pc = "waiting", !.waitTime = w, !.waits = @ + 1]]
                  /\ UNCHANGED <<clientIndex, mirVars, req>>
             ELSE LoopHead(c, f, f.i + 1, req[c])

\* the setTimeout of the backoff fires: i++ and the next iteration
WaitElapses(c) ==
    /\ UNCHANGED envVars
    /\ yt[c].pc = "waiting"
    /\ LoopHead(c, [yt[c] EXCEPT !.prevWait = yt[c].waitTime, !.waitTime = 0],
                yt[c].i + 1, req[c])

\* a caller invokes getYouTubeInfo on its own
CallGetYouTubeInfo(c) ==
    /\ UNCHANGED envVars
    /\ Unused(c)
    /\ \E n \in 1..MaxRetryCount : EnterGetYouTubeInfo(c, n, req[c])

NextResolver ==
    \E c \in Calls :
        \/ CallGetYouTubeInfo(c)
        \/ GetInfoSucceeds(c)
        \/ GetInfoFails(c)
        \/ WaitElapses(c)

SpecResolver == Init /\ [][NextResolver]_vars

\* the handler h invokes n operations of the catalog gateway and suspends at
\* their await
GatewayCall(h, pc, n) ==
    [h EXCEPT !.pc = pc, !.gatewayOps = @ + n,
              !.notReadyOps = @ + IF isInitialized THEN 0 ELSE n]

(***************************************************************************)
(* The rate limiter mounted on /api/                                       *)
(***************************************************************************)
\* rateLimit options that admit one request more per window
LimiterOptionsOneMore == [windowMs |-> 60 * 1000, max |-> 31]

\* rateLimit({ windowMs: 60 * 1000, max: 30, ... })
LimiterOptions == [windowMs |-> 60 * 1000, max |-> 30]

\* the counters of origin o once a request of it that arrives now is
\* counted: the first request of an origin, and the first after its window
\* has ended, starts a window
LimiterHit(o) ==
    IF limiter[o].hits = 0 \/ now >= limiter[o].resetTime
    THEN [hits |-> 1, resetTime |-> now + LimiterOptions.windowMs,
          last |-> "admitted", lastAt |-> now, firstAt |-> now,
          windows |-> limiter[o].windows + 1]
    ELSE [hits |-> limiter[o].hits + 1, resetTime |-> limiter[o].resetTime,
          last |-> IF limiter[o].hits + 1 <= LimiterOptions.max
                   THEN "admitted" ELSE "rejected",
          lastAt |-> now, firstAt |-> limiter[o].firstAt,
          windows |-> limiter[o].windows]

\* the limiter counts a request of origin o (the counter of the model stops
\* at MaxHits)
LimiterCounts(o) ==
    /\ LimiterHit(o).hits <= MaxHits
    /\ limiter' = [limiter EXCEPT ![o] = LimiterHit(o)]

\* req.ip of the request served as call c
OriginOf(c) == "o1"

\* the request of call c arrives at a route under /api/: the limiter counts
\* it and passes it on
PassesLimiter(c) ==
    /\ LimiterHit(OriginOf(c)).last = "admitted"
    /\ LimiterCounts(OriginOf(c))

\* the request of call c arrives at a route under /api/ and the limiter
\* answers it, 429 { error: 'Too many requests, please try again later.' }:
\* no route handler runs
LimiterRejects(c) ==
    /\ Unused(c)
    /\ LimiterHit(OriginOf(c)).last = "rejected"
    /\ LimiterCounts(OriginOf(c))
    /\ req' = [req EXCEPT ![c] =
           Send([ReqIdle EXCEPT !.route = "limiter"],
                [NoResponse EXCEPT !.status = 429, !.body = "Too many requests"])]
    /\ UNCHANGED <<ytVars, mirVars, gatewayVars, now, rw>>

\* GET /api/proxy/image without url arrives from origin o: the limiter
\* counts it and answers 429, or the handler answers 400 'URL required'
\* at once
ApiRequest(o) ==
    /\ LimiterCounts(o)
    /\ UNCHANGED <<ytVars, mirVars, req, gatewayVars, now, rw>>

\* time passes, half a window in a step
Tick ==
    /\ now < MaxWindows * LimiterOptions.windowMs
    /\ now' = now + LimiterOptions.windowMs \div 2
    /\ UNCHANGED <<ytVars, mirVars, req, gatewayVars, limiter, rw>>

NextLimiter ==
    \/ \E o \in Origins : ApiRequest(o)
    \/ Tick

SpecLimiter == Init /\ [][NextLimiter]_vars

(***************************************************************************)
(* The route handlers /api/stream/:videoId and /api/proxy/:videoId         *)
(***************************************************************************)
\* GET /api/stream/:videoId arrives: the handler awaits ytmusic.getSong
StreamRequest(c) ==
    /\ UNCHANGED <<gatewayVars, now, rw>>
    /\ Unused(c)
    /\ PassesLimiter(c)
    /\ req' = [req EXCEPT ![c] = GatewayCall([ReqIdle EXCEPT !.route = "stream"], "getSong", 1)]
    /\ UNCHANGED <<ytVars, mirVars>>

\* StreamGetSongSettles with a handler that allows six attempts
StreamGetSongSettlesSixAttempts(c) ==
    /\ UNCHANGED envVars
    /\ req[c].pc = "getSong"
    /\ EnterGetYouTubeInfo(c, 6, [req[c] EXCEPT !.pc = "getYouTubeInfo"])

\* ytmusic.getSong settles (a rejection only changes the unused query), and
\* the handler calls getYouTubeInfo(videoId, 5)
StreamGetSongSettles(c) ==
    /\ UNCHANGED envVars
    /\ req[c].pc = "getSong"
    /\ EnterGetYouTubeInfo(c, 5, [req[c] EXCEPT !.pc = "getYouTubeInfo"])

\* ProxyRequest on a route the limiter is not mounted in front of
ProxyRequestUnlimited(c) ==
    /\ UNCHANGED <<gatewayVars, now, rw>>
    /\ Unused(c)
    /\ limiter' = limiter
    /\ EnterGetYouTubeInfo(
           c, 5, [ReqIdle EXCEPT !.pc = "getYouTubeInfo", !.route = "proxy"])

\* GET /api/proxy/:videoId arrives and passes the limiter: res.setHeader
\* three times, then the handler calls getYouTubeInfo(videoId, 5)
ProxyRequest(c) ==
    /\ UNCHANGED <<gatewayVars, now, rw>>
    /\ Unused(c)
    /\ PassesLimiter(c)
    /\ EnterGetYouTubeInfo(
           c, 5, [ReqIdle EXCEPT !.pc = "getYouTubeInfo", !.route = "proxy"])

\* the piped stream writes to res: headers and bytes go out
ProxyStreamData(c) ==
    /\ UNCHANGED envVars
    /\ req[c].pc = "streaming"
    /\ ~req[c].headersSent
    /\ req' = [req EXCEPT ![c] =
           [req[c] EXCEPT !.headersSent = TRUE, !.sent = @ + 1,
                          !.response = [NoResponse EXCEPT !.status = 200,
                                                          !.body = "stream"]]]
    /\ UNCHANGED <<ytVars, mirVars>>

\* a listener that answers 500 'Stream failed' whatever has been sent
ProxyStreamErrorAlwaysSends(c) ==
    /\ UNCHANGED envVars
    /\ req[c].pc = "streaming"
    /\ req' = [req EXCEPT ![c] =
           Send(req[c], [NoResponse EXCEPT !.status = 500, !.body = "Stream failed"])]
    /\ UNCHANGED <<ytVars, mirVars>>

\* the stream emits 'error': 500 'Stream failed' unless headers were sent
\* (then the listener only logs, and the response stays as it is)
ProxyStreamError(c) ==
    /\ UNCHANGED envVars
    /\ req[c].pc = "streaming"
    /\ req' = [req EXCEPT ![c] =
           IF ~req[c].headersSent
           THEN Send(req[c], [NoResponse EXCEPT !.status = 500, !.body = "Stream failed"])
           ELSE [req[c] EXCEPT !.pc = "errored"]]
    /\ UNCHANGED <<ytVars, mirVars>>

\* the stream ends after its bytes went out: pipe ends res
ProxyStreamEnd(c) ==
    /\ UNCHANGED envVars
    /\ req[c].pc = "streaming"
    /\ req[c].headersSent
    /\ req' = [req EXCEPT ![c].pc = "done"]
    /\ UNCHANGED <<ytVars, mirVars>>

Next ==
    \E c \in Requests :
        \/ StreamRequest(c)
        \/ StreamGetSongSettles(c)
        \/ ProxyRequest(c)
        \/ GetInfoSucceeds(c)
        \/ GetInfoFails(c)
        \/ WaitElapses(c)
        \/ PipedResponds(c)
        \/ InvidiousResponds(c)
        \/ ProxyStreamData(c)
        \/ ProxyStreamError(c)
        \/ ProxyStreamEnd(c)

Spec == Init /\ [][Next]_vars

\* what is pending for the call c settles: the promise of ytmusic.getSong,
\* of ytdl.getInfo or of axios.get, the backoff timer, an event of the
\* piped stream
Settles(c) ==
    \/ StreamGetSongSettles(c)
    \/ GetInfoSucceeds(c)
    \/ GetInfoFails(c)
    \/ WaitElapses(c)
    \/ PipedResponds(c)
    \/ InvidiousResponds(c)
    \/ ProxyStreamData(c)
    \/ ProxyStreamError(c)
    \/ ProxyStreamEnd(c)

\* another request in flight, whose frame the model does not keep, calls
\* getNextClient (an attempt of its getYouTubeInfo) or getNextPiped (an
\* iteration of its Piped loop): the shared cursor moves on
OtherRequestDraws ==
    /\ \/ /\ clientIndex' = NextClientIndex
          /\ UNCHANGED <<invidiousIndex, pipedIndex>>
       \/ /\ pipedIndex' = NextPipedIndex
          /\ UNCHANGED <<clientIndex, invidiousIndex>>
    /\ UNCHANGED <<yt, mir, req, envVars>>

\* the two routes, and the draws of other requests between their steps
NextResolution == Next \/ OtherRequestDraws

\* every outbound call and every timer of a request in flight settles
SpecResolution ==
    /\ Init /\ [][NextResolution]_vars
    /\ \A c \in Requests : WF_vars(Settles(c))

(***************************************************************************)
(* The start-up of the catalog gateway                                     *)
(***************************************************************************)
\* the callback of app.listen runs (not on Vercel, where nothing calls
\* initializeYTMusic): initializeYTMusic awaits ytmusic.initialize()
ServerListens ==
    /\ ytmusicInit = "idle"
    /\ ytmusicInit' = "initializing"
    /\ UNCHANGED <<ytVars, mirVars, req, isInitialized, limiter, now, rw>>

\* ytmusic.initialize() resolves: isInitialized = true
InitializeSucceeds ==
    /\ ytmusicInit = "initializing"
    /\ isInitialized' = TRUE
    /\ ytmusicInit' = "ready"
    /\ UNCHANGED <<ytVars, mirVars, req, limiter, now, rw>>

\* ytmusic.initialize() rejects: setTimeout(initializeYTMusic, 5000)
InitializeFails ==
    /\ ytmusicInit = "initializing"
    /\ ytmusicInit' = "retryWait"
    /\ UNCHANGED <<ytVars, mirVars, req, isInitialized, limiter, now, rw>>

\* the timer of the retry fires: initializeYTMusic again
InitializeRetry ==
    /\ ytmusicInit = "retryWait"
    /\ ytmusicInit' = "initializing"
    /\ UNCHANGED <<ytVars, mirVars, req, isInitialized, limiter, now, rw>>

(***************************************************************************)
(* The catalog route handlers                                              *)
(***************************************************************************)
\* res.status(503).json({ error: 'YTMusic not initialized yet. Please try again.' })
NotInitialized == [NoResponse EXCEPT !.status = 503, !.body = "YTMusic not initialized yet"]

\* res.json({ success: true, ... })
Success == [NoResponse EXCEPT !.status = 200, !.body = "success"]

\* the 500 of the catch block of a catalog handler
CatalogFailed == [NoResponse EXCEPT !.status = 500, !.body = "failed", !.message = GatewayError]

\* a request arrives at the catalog route `route` and passes the limiter: 503
\* while isInitialized is false, 400 when `valid` is false, and else the
\* handler invokes n gateway operations and awaits them at pc
CatalogArrives(c, route, valid, pc, n) ==
    /\ Unused(c)
    /\ PassesLimiter(c)
    /\ req' = [req EXCEPT ![c] =
           IF ~isInitialized THEN Send([ReqIdle EXCEPT !.route = route], NotInitialized)
           ELSE IF ~valid
           THEN Send([ReqIdle EXCEPT !.route = route],
                     [NoResponse EXCEPT !.status = 400, !.body = "Query parameter is required"])
           ELSE GatewayCall([ReqIdle EXCEPT !.route = route], pc, n)]
    /\ UNCHANGED <<ytVars, mirVars, gatewayVars, now, rw>>

\* the gateway operation that the handler of /api/search, /api/song or
\* /api/artist awaits, or the listing that the handler of /api/playlist
\* awaits, settles, and the handler answers: 200, or 500 from its catch
\* block (the operation rejected, or the code behind it threw)
CatalogSettles(c) ==
    /\ req[c].pc \in {"search", "song", "artist", "playlistVideos"}
    /\ \E ok \in BOOLEAN :
         req' = [req EXCEPT ![c] =
             IF ok THEN Send(req[c], Success)
             ELSE Send([req[c] EXCEPT !.error = GatewayError], CatalogFailed)]
    /\ UNCHANGED <<ytVars, mirVars, envVars>>

\* POST /api/search arrives: with type 'all' four searches at once, else one
SearchRequest(c) ==
    \E query \in BOOLEAN, all \in BOOLEAN :
        CatalogArrives(c, "search", query, "search", IF all THEN 4 ELSE 1)

\* GET /api/song/:videoId, /api/artist/:artistId or
\* /api/playlist/:playlistId arrives: the handler awaits ytmusic.getSong,
\* getArtist or getPlaylist
LookupRequest(c) ==
    \E route \in {"song", "artist", "playlist"} :
        CatalogArrives(c, route, TRUE, route, 1)

\* ytmusic.getPlaylist settles: the handler awaits getPlaylistVideos, or
\* answers 500
PlaylistGetPlaylistSettles(c) ==
    /\ req[c].pc = "playlist"
    /\ \E ok \in BOOLEAN :
         req' = [req EXCEPT ![c] =
             IF ok THEN GatewayCall(req[c], "playlistVideos", 1)
             ELSE Send([req[c] EXCEPT !.error = GatewayError], CatalogFailed)]
    /\ UNCHANGED <<ytVars, mirVars, envVars>>

(***************************************************************************)
(* GET /api/album/:albumId                                                 *)
(***************************************************************************)
\* the end of the handler: throw fetchError, 404, or tracks from songs and
\* the album as the answer
AlbumAnswer(h) ==
    IF ~h.album.found /\ h.fetchError
    THEN Send([h EXCEPT !.error = GatewayError], CatalogFailed)
    ELSE IF ~h.album.found
    THEN Send(h, [NoResponse EXCEPT !.status = 404, !.body = "Album not found"])
    ELSE Send([h EXCEPT !.album.tracks =
                   IF h.album.songs # "none" /\ h.album.tracks = "none"
                   THEN h.album.songs ELSE @],
              Success)

\* the handler behind the playlist-style listing: the search by name if
\* (!album || !album.tracks || album.tracks.length === 0) && albumName,
\* else the end
AlbumAfterListing(h) ==
    IF (~h.album.found \/ h.album.tracks \in {"none", "empty"}) /\ h.albumName
    THEN GatewayCall([h EXCEPT !.tiers = Append(@, "search")], "searchAlbums", 1)
    ELSE AlbumAnswer(h)

\* the handler behind the direct lookup: the listing if
\* (!album || !album.songs || album.songs.length === 0) && albumId starts
\* with 'OLAK5uy_', 'PL' or 'VL', else on
AlbumAfterDirect(h) ==
    IF (~h.album.found \/ h.album.songs \in {"none", "empty"}) /\ h.knownPrefix
    THEN GatewayCall([h EXCEPT !.tiers = Append(@, "listing")], "getPlaylistVideos", 1)
    ELSE AlbumAfterListing(h)

\* GET /api/album/:albumId arrives, its id with a known prefix or not, with
\* or without ?name=: the handler awaits ytmusic.getAlbum(albumId)
AlbumRequest(c) ==
    /\ Unused(c)
    /\ PassesLimiter(c)
    /\ \E knownPrefix \in BOOLEAN, albumName \in BOOLEAN :
         req' = [req EXCEPT ![c] =
             IF ~isInitialized THEN Send([ReqIdle EXCEPT !.route = "album"], NotInitialized)
             ELSE GatewayCall([ReqIdle EXCEPT !.route = "album",
                                              !.knownPrefix = knownPrefix,
                                              !.albumName = albumName,
                                              !.tiers = <<"direct">>],
                              "getAlbum", 1)]
    /\ UNCHANGED <<ytVars, mirVars, gatewayVars, now, rw>>

\* ytmusic.getAlbum(albumId) settles: it rejects, or gives nothing, or gives
\* an album with or without songs and tracks
AlbumGetAlbumSettles(c) ==
    /\ req[c].pc = "getAlbum"
    /\ \/ req' = [req EXCEPT ![c] =
              AlbumAfterDirect([req[c] EXCEPT !.fetchError = TRUE, !.direct = "none"])]
       \/ req' = [req EXCEPT ![c] = AlbumAfterDirect([req[c] EXCEPT !.direct = "none"])]
       \/ \E songs \in {"none", "empty", "some"}, tracks \in {"none", "empty", "some"} :
            req' = [req EXCEPT ![c] =
                AlbumAfterDirect(
                    [req[c] EXCEPT !.direct = songs,
                                   !.album = [found |-> TRUE, songs |-> songs,
                                              tracks |-> tracks, from |-> "direct"]])]
    /\ UNCHANGED <<ytVars, mirVars, envVars>>

\* ytmusic.getPlaylistVideos(albumId) settles: it rejects or gives no tracks
\* (album stays as it is), or gives tracks, which become tracks and songs of
\* the album (of a new one when there is none)
AlbumPlaylistVideosSettles(c) ==
    /\ req[c].pc = "getPlaylistVideos"
    /\ \E tracks \in {"none", "empty", "some", "rejected"} :
         req' = [req EXCEPT ![c] =
             AlbumAfterListing(
                 IF tracks = "some"
                 THEN [req[c] EXCEPT !.listing = "some",
                                     !.album = [found |-> TRUE, songs |-> "some",
                                                tracks |-> "some",
                                                from |-> IF req[c].album.found
                                                         THEN req[c].album.from
                                                         ELSE "listing"]]
                 ELSE [req[c] EXCEPT !.listing = "none"])]
    /\ UNCHANGED <<ytVars, mirVars, envVars>>

\* ytmusic.searchAlbums settles: it rejects or has no match with another
\* albumId (the end), or has one: the handler awaits getAlbum(match.albumId)
AlbumSearchSettles(c) ==
    /\ req[c].pc = "searchAlbums"
    /\ \E match \in BOOLEAN :
         req' = [req EXCEPT ![c] =
             IF match THEN GatewayCall(req[c], "getAlbumOfMatch", 1)
             ELSE AlbumAnswer(req[c])]
    /\ UNCHANGED <<ytVars, mirVars, envVars>>

\* ytmusic.getAlbum(match.albumId) settles: when it gives an album with
\* songs, `album = recoveredAlbum`
AlbumOfMatchSettles(c) ==
    /\ req[c].pc = "getAlbumOfMatch"
    /\ \/ req' = [req EXCEPT ![c] = AlbumAnswer(req[c])]
       \/ \E songs \in {"none", "empty", "some"}, tracks \in {"none", "empty", "some"} :
            req' = [req EXCEPT ![c] =
                AlbumAnswer(
                    IF songs = "some"
                    THEN [req[c] EXCEPT !.album = [found |-> TRUE, songs |-> songs,
                                                   tracks |-> tracks, from |-> "search"]]
                    ELSE req[c])]
    /\ UNCHANGED <<ytVars, mirVars, envVars>>

\* the server: the start-up of the gateway, the rate limiter with further
\* requests of the same origin, and every route handler that uses the gateway
NextCatalog ==
    \/ ServerListens
    \/ InitializeSucceeds
    \/ InitializeFails
    \/ InitializeRetry
    \/ Next
    \/ \E c \in Requests :
          \/ LimiterRejects(c)
          \/ ApiRequest(OriginOf(c))
          \/ SearchRequest(c)
          \/ LookupRequest(c)
          \/ CatalogSettles(c)
          \/ PlaylistGetPlaylistSettles(c)
          \/ AlbumRequest(c)
          \/ AlbumGetAlbumSettles(c)
          \/ AlbumPlaylistVideosSettles(c)
          \/ AlbumSearchSettles(c)
          \/ AlbumOfMatchSettles(c)

SpecCatalog == Init /\ [][NextCatalog]_vars

(***************************************************************************)
(* The deployment modes: the process starts its own listener, or an         *)
(* external host runtime imports the exported app (VERCEL === '1')          *)
(***************************************************************************)
\* the module is evaluated with process.env.VERCEL === '1': app.listen is
\* not called, so its callback, the only caller of initializeYTMusic, never
\* runs; the host runtime hands the requests to the exported app
VercelImport ==
    /\ ytmusicInit = "idle"
    /\ ytmusicInit' = "hosted"
    /\ UNCHANGED <<ytVars, mirVars, req, isInitialized, limiter, now, rw>>

\* the start-up in either mode, with the requests to the catalog routes that
\* check isInitialized
NextStartup ==
    \/ VercelImport
    \/ ServerListens
    \/ InitializeSucceeds
    \/ InitializeFails
    \/ InitializeRetry
    \/ \E c \in Requests :
          \/ ApiRequest(OriginOf(c))
          \/ SearchRequest(c)
          \/ LookupRequest(c)
          \/ CatalogSettles(c)
          \/ PlaylistGetPlaylistSettles(c)

\* the module is evaluated in one of the two modes; the callback of
\* app.listen and the timer of the retry run once they are due, the promise
\* of ytmusic.initialize() settles, and an initialization that is tried again
\* and again succeeds at some time
SpecStartup ==
    /\ Init /\ [][NextStartup]_vars
    /\ WF_vars(VercelImport \/ ServerListens)
    /\ WF_vars(InitializeRetry)
    /\ WF_vars(InitializeSucceeds \/ InitializeFails)
    /\ SF_vars(InitializeSucceeds)

(***************************************************************************)
(* The thumbnail rewriter: proxyThumbnailUrl, processThumbnails,           *)
(* processResults, proxyAllThumbnails.                                     *)
(*                                                                         *)
(* A JavaScript value is a record tagged with its kind; a string is the    *)
(* sequence of its characters, an array the sequence of its elements, an   *)
(* object the function from its own keys to their values.                  *)
(***************************************************************************)
Undefined == [kind |-> "undefined"]
Str(chars) == [kind |-> "string", chars |-> chars]
Num(n) == [kind |-> "number", n |-> n]
Arr(items) == [kind |-> "array", items |-> items]
Obj(fields) == [kind |-> "object", fields |-> fields]

\* what a call that threw leaves instead of a value
Thrown == [kind |-> "thrown"]

\* !!v
Truthy(v) ==
    CASE v.kind \in {"undefined", "null"} -> FALSE
      [] v.kind = "string" -> Len(v.chars) > 0
      [] v.kind = "number" -> v.n # 0
      [] OTHER -> TRUE

\* o.key for an object o: undefined when o has no such key
Get(o, key) == IF key \in DOMAIN o.fields THEN o.fields[key] ELSE Undefined

\* { ...o, key: v }
With(o, key, v) ==
    Obj([k \in DOMAIN o.fields \cup {key} |-> IF k = key THEN v ELSE o.fields[k]])

Digits == {"0", "1", "2", "3", "4", "5", "6", "7", "8", "9"}
\* a UTF-16 code unit of a surrogate pair that stands alone
LoneSurrogate == "\\uD800"

\* the characters encodeURIComponent leaves as they are
Unreserved ==
    {"a", "b", "c", "d", "e", "f", "g", "h", "i", "j", "k", "l", "m",
     "n", "o", "p", "q", "r", "s", "t", "u", "v", "w", "x", "y", "z",
     "A", "B", "C", "D", "E", "F"}
        \cup Digits \cup {"-", "_", ".", "!", "~", "*", "'", "(", ")"}

\* the escape sequence of the other characters of the model's alphabet
PercentCode ==
    [ch \in {":", "/", "=", "%", " ", "&", "?"} |->
        CASE ch = ":" -> <<"%", "3", "A">>
          [] ch = "/" -> <<"%", "2", "F">>
          [] ch = "=" -> <<"%", "3", "D">>
          [] ch = "%" -> <<"%", "2", "5">>
          [] ch = " " -> <<"%", "2", "0">>
          [] ch = "&" -> <<"%", "2", "6">>
          [] ch = "?" -> <<"%", "3", "F">>]

RECURSIVE EncodeChars(_)
\* the escaped form of a sequence of characters without lone surrogate
EncodeChars(s) ==
    IF s = <<>> THEN <<>>
    ELSE (IF Head(s) \in Unreserved THEN <<Head(s)>> ELSE PercentCode[Head(s)])
             \o EncodeChars(Tail(s))

\* encodeURIComponent(v) for a string v: throws URIError on a lone surrogate
encodeURIComponent(v) ==
    IF \E k \in DOMAIN v.chars : v.chars[k] = LoneSurrogate
    THEN Thrown
    ELSE Str(EncodeChars(v.chars))

RECURSIVE DecodeChars(_)
\* decodeURIComponent on a sequence of characters; a malformed escape
\* sequence (URIError) is left as the mark "URIError"
DecodeChars(s) ==
    IF s = <<>> THEN <<>>
    ELSE IF Head(s) # "%" THEN <<Head(s)>> \o DecodeChars(Tail(s))
    ELSE IF Len(s) >= 3 /\ \E ch \in DOMAIN PercentCode : PercentCode[ch] = SubSeq(s, 1, 3)
         THEN <<CHOOSE ch \in DOMAIN PercentCode : PercentCode[ch] = SubSeq(s, 1, 3)>>
                  \o DecodeChars(SubSeq(s, 4, Len(s)))
         ELSE <<"URIError">>

\* the literal lit stands in s at position i
At(s, i, lit) ==
    /\ i >= 1
    /\ i + Len(lit) - 1 <= Len(s)
    /\ SubSeq(s, i, i + Len(lit) - 1) = lit

\* s.includes(sub)
Includes(s, sub) == \E i \in 1..Len(s) : At(s, i, sub)

RECURSIVE DigitRun(_, _)
\* the length of the run of digits of s that starts at position i (\d+ is greedy)
DigitRun(s, i) ==
    IF i <= Len(s) /\ s[i] \in Digits THEN 1 + DigitRun(s, i + 1) ELSE 0

\* a match of /=w\d+-h\d+(-p)?-l\d+-rj/ that starts at position i of s: the
\* position after it (0 when there is no match) and the text of group 1
Lh3Match(s, i) ==
    LET d1 == DigitRun(s, i + 2)
        j == i + 2 + d1
        d2 == DigitRun(s, j + 2)
        k == j + 2 + d2
        p == At(s, k, <<"-", "p">>)
        k2 == IF p THEN k + 2 ELSE k
        d3 == DigitRun(s, k2 + 2)
        e == k2 + 2 + d3
    IN  IF /\ At(s, i, <<"=", "w">>) /\ d1 > 0
           /\ At(s, j, <<"-", "h">>) /\ d2 > 0
           /\ At(s, k2, <<"-", "l">>) /\ d3 > 0
           /\ At(s, e, <<"-", "r", "j">>)
        THEN [end |-> e + 3, group1 |-> IF p THEN <<"-", "p">> ELSE <<>>]
        ELSE [end |-> 0, group1 |-> <<>>]

\* url.replace(/=w\d+-h\d+(-p)?-l\d+-rj/, '=w500-h500$1-l90-rj'): the leftmost match
ReplaceLh3(s) ==
    LET starts == {i \in 1..Len(s) : Lh3Match(s, i).end > 0}
    IN  IF starts = {} THEN s
        ELSE LET i == CHOOSE i \in starts : \A j \in starts : i <= j
                 m == Lh3Match(s, i)
             IN  SubSeq(s, 1, i - 1)
                     \o <<"=", "w", "5", "0", "0", "-", "h", "5", "0", "0">> \o m.group1 \o <<"-", "l", "9", "0", "-", "r", "j">>
                     \o SubSeq(s, m.end, Len(s))

\* url.replace(/=s\d+/, '=s500'): the leftmost match
ReplaceYt3(s) ==
    LET starts == {i \in 1..Len(s) : At(s, i, <<"=", "s">>) /\ DigitRun(s, i + 2) > 0}
    IN  IF starts = {} THEN s
        ELSE LET i == CHOOSE i \in starts : \A j \in starts : i <= j
             IN  SubSeq(s, 1, i - 1) \o <<"=", "s", "5", "0", "0">>
                     \o SubSeq(s, i + 2 + DigitRun(s, i + 2), Len(s))

\* the value of `upscaled` for the characters of a non-empty url
Upscaled(u) ==
    IF Includes(u, <<"y", "t", "3", ".", "g", "o", "o", "g", "l", "e", "u", "s", "e", "r", "c", "o", "n", "t", "e", "n", "t", ".", "c", "o", "m">>)
    THEN ReplaceYt3(u)
    ELSE IF Includes(u, <<"l", "h", "3", ".", "g", "o", "o", "g", "l", "e", "u", "s", "e", "r", "c", "o", "n", "t", "e", "n", "t", ".", "c", "o", "m">>)
    THEN ReplaceLh3(u)
    ELSE u

\* '/api/proxy/image?url='
PROXY_IMAGE == <<"/", "a", "p", "i", "/", "p", "r", "o", "x", "y", "/", "i", "m", "a", "g", "e", "?", "u", "r", "l", "=">>

\* a proxyThumbnailUrl that puts the upscaled url into the query as it is
proxyThumbnailUrlUnescaped(url, baseUrl) ==
    IF ~Truthy(url) THEN url
    ELSE Str(baseUrl \o PROXY_IMAGE \o Upscaled(url.chars))

\* proxyThumbnailUrl(url, baseUrl), url being a string, undefined or null
\* (here and below, CHOOSE r \in {e : x \in {d}} : TRUE is e with x standing
\* for the value of d, computed once)
proxyThumbnailUrl(url, baseUrl) ==
    IF ~Truthy(url) THEN url
    ELSE CHOOSE r \in {IF encoded = Thrown THEN Thrown
                       ELSE Str(baseUrl \o PROXY_IMAGE \o encoded.chars) :
                           encoded \in {encodeURIComponent(Str(Upscaled(url.chars)))}} : TRUE

\* processThumbnails(thumbnails, baseUrl), thumbnails being undefined, null
\* or an array of objects
processThumbnails(thumbnails, baseUrl) ==
    IF ~Truthy(thumbnails) \/ Len(thumbnails.items) = 0 THEN thumbnails
    ELSE IF \E k \in DOMAIN thumbnails.items :
                proxyThumbnailUrl(Get(thumbnails.items[k], "url"), baseUrl) = Thrown
    THEN Thrown
    ELSE Arr([k \in DOMAIN thumbnails.items |->
                 With(thumbnails.items[k], "url",
                      proxyThumbnailUrl(Get(thumbnails.items[k], "url"), baseUrl))])

\* SyntheticThumbnails without the larger of the two
SyntheticThumbnailsSmallOnly(videoId) ==
    Arr(<<Obj([url |-> Str(<<"h", "t", "t", "p", "s", ":", "/", "/", "i", ".", "y", "t", "i", "m", "g", ".", "c", "o", "m", "/", "v", "i", "/">> \o videoId.chars \o <<"/", "m", "q", "d", "e", "f", "a", "u", "l", "t", ".", "j", "p", "g">>),
               width |-> Num(320), height |-> Num(180)])>>)

\* the two thumbnails processResults gives an item that has none
SyntheticThumbnails(videoId) ==
    Arr(<<Obj([url |-> Str(<<"h", "t", "t", "p", "s", ":", "/", "/", "i", ".", "y", "t", "i", "m", "g", ".", "c", "o", "m", "/", "v", "i", "/">> \o videoId.chars \o <<"/", "m", "q", "d", "e", "f", "a", "u", "l", "t", ".", "j", "p", "g">>),
               width |-> Num(320), height |-> Num(180)]),
          Obj([url |-> Str(<<"h", "t", "t", "p", "s", ":", "/", "/", "i", ".", "y", "t", "i", "m", "g", ".", "c", "o", "m", "/", "v", "i", "/">> \o videoId.chars \o <<"/", "h", "q", "d", "e", "f", "a", "u", "l", "t", ".", "j", "p", "g">>),
               width |-> Num(480), height |-> Num(360)])>>)

\* the item after the first statement of the map callback of processResults:
\* item.thumbnails = [ ... ] when it has none and carries a videoId
Synthesized(item) ==
    IF /\ \/ ~Truthy(Get(item, "thumbnails"))
          \/ Len(Get(item, "thumbnails").items) = 0
       /\ Truthy(Get(item, "videoId"))
    THEN With(item, "thumbnails", SyntheticThumbnails(Get(item, "videoId")))
    ELSE item

\* the map callback of processResults on one item: the value it returns
\* (Thrown when processThumbnails throws) and the item object afterwards;
\* both assignments write to the caller's item
ProcessItem(item, baseUrl) ==
    CHOOSE r \in {IF processed = Thrown
                  THEN [value |-> Thrown, item |-> withThumbs]
                  ELSE [value |-> With(withThumbs, "thumbnails", processed),
                        item |-> With(withThumbs, "thumbnails", processed)] :
                      withThumbs \in {Synthesized(item)},
                      processed \in {processThumbnails(
                                         Get(Synthesized(item), "thumbnails"), baseUrl)}} : TRUE

\* processResults(items, baseUrl), items being an array of objects: the value
\* returned (Thrown when the callback throws) and the caller's array with
\* its item objects as they are afterwards; an item behind one whose
\* callback threw is not reached
processResults(items, baseUrl) ==
    CHOOSE r \in {[value |-> IF threw = {}
                             THEN Arr([k \in DOMAIN items.items |->
                                          ProcessItem(items.items[k], baseUrl).value])
                             ELSE Thrown,
                   items |-> Arr([k \in DOMAIN items.items |->
                                    IF \A j \in threw : k <= j
                                    THEN ProcessItem(items.items[k], baseUrl).item
                                    ELSE items.items[k]])] :
                      threw \in {{k \in DOMAIN items.items :
                                     ProcessItem(items.items[k], baseUrl).value = Thrown}}} : TRUE

RECURSIVE proxyAllThumbnails(_, _)
\* proxyAllThumbnails(obj, baseUrl): works on a shallow copy of every object
\* and on the new array of every map, so the value returned is all it makes
proxyAllThumbnails(obj, baseUrl) ==
    IF obj.kind \notin {"array", "object"} THEN obj
    ELSE IF obj.kind = "array"
    THEN CHOOSE r \in {IF \E k \in DOMAIN each : each[k] = Thrown THEN Thrown ELSE Arr(each) :
                           each \in {[k \in DOMAIN obj.items |->
                                         proxyAllThumbnails(obj.items[k], baseUrl)] @@ <<>>}} : TRUE
    ELSE CHOOSE r \in {IF \E key \in DOMAIN result : result[key] = Thrown THEN Thrown
                       ELSE Obj(result) :
                           result \in {[key \in DOMAIN obj.fields |->
                               IF key = "thumbnails" /\ obj.fields[key].kind = "array"
                               THEN processThumbnails(obj.fields[key], baseUrl)
                               ELSE IF obj.fields[key].kind \in {"array", "object"}
                               THEN proxyAllThumbnails(obj.fields[key], baseUrl)
                               ELSE obj.fields[key]] @@ <<>>}} : TRUE

(***************************************************************************)
(* The calls of the thumbnail rewriter: what it may be handed.             *)
(***************************************************************************)
\* `${req.protocol}://${req.get('host')}`
BaseUrl == <<"h", "t", "t", "p", ":", "/", "/", "h">>

\* the sequences over S of length lo..hi
SeqsOf(S, lo, hi) == UNION {[1..n -> S] : n \in lo..hi}

\* marks a key an object does not have
Absent == [kind |-> "absent"]

\* the url of a thumbnail descriptor: no such key, undefined, '', the short
\* strings of a character that is not escaped, two that are and a lone
\* surrogate, and urls that name the hosts the upscaling looks for
UrlOptions ==
    {Absent, Undefined, Str(<<>>)}
        \cup {Str(u) : u \in SeqsOf({"a", "/", "%", LoneSurrogate}, 1, MaxUrlLen)}
        \cup {Str(u) : u \in
            {<<"h", "t", "t", "p", "s", ":", "/", "/", "l", "h", "3", ".", "g", "o", "o", "g", "l", "e", "u", "s", "e", "r", "c", "o", "n", "t", "e", "n", "t", ".", "c", "o", "m", "/", "a", "=", "w", "6", "0", "-", "h", "6", "0", "-", "l", "9", "0", "-", "r", "j">>,
             <<"h", "t", "t", "p", "s", ":", "/", "/", "l", "h", "3", ".", "g", "o", "o", "g", "l", "e", "u", "s", "e", "r", "c", "o", "n", "t", "e", "n", "t", ".", "c", "o", "m", "/", "a", "=", "w", "1", "2", "0", "-", "h", "1", "2", "0", "-", "p", "-", "l", "9", "0", "-", "r", "j">>,
             <<"h", "t", "t", "p", "s", ":", "/", "/", "y", "t", "3", ".", "g", "o", "o", "g", "l", "e", "u", "s", "e", "r", "c", "o", "n", "t", "e", "n", "t", ".", "c", "o", "m", "/", "a", "=", "s", "8", "8">>,
             <<"h", "t", "t", "p", "s", ":", "/", "/", "l", "h", "3", ".", "g", "o", "o", "g", "l", "e", "u", "s", "e", "r", "c", "o", "n", "t", "e", "n", "t", ".", "c", "o", "m", "/", "a", "%">>}}

\* the object with the fields `fields` and, unless it is Absent, key |-> v
WithOptional(fields, key, v) == IF v = Absent THEN fields ELSE (key :> v) @@ fields

\* the thumbnail descriptor at position k of a list: { url, width, height },
\* its size telling the position
Descriptor(url, k) ==
    Obj(WithOptional([width |-> Num(60 * k), height |-> Num(60 * k)], "url", url))

\* the arrays of lo..hi descriptors with urls of `urls`
DescriptorLists(urls, lo, hi) ==
    UNION {{Arr([k \in 1..n |-> Descriptor(f[k], k)]) : f \in [1..n -> urls]} : n \in lo..hi}

\* what processThumbnails may be handed: nothing, the lists of at most one
\* descriptor with any of the urls, and longer lists with a few of them
ThumbnailInputs ==
    {Undefined, [kind |-> "null"]}
        \cup DescriptorLists(UrlOptions, 0, 1)
        \cup DescriptorLists(
                 {Absent, Str(<<>>), Str(<<"a", "/">>), Str(<<LoneSurrogate>>),
                  Str(<<"h", "t", "t", "p", "s", ":", "/", "/", "l", "h", "3", ".", "g", "o", "o", "g", "l", "e", "u", "s", "e", "r", "c", "o", "n", "t", "e", "n", "t", ".", "c", "o", "m", "/", "a", "=", "w", "6", "0", "-", "h", "6", "0", "-", "l", "9", "0", "-", "r", "j">>)},
                 2, MaxThumbnails)

\* the result items: { name, videoId?, thumbnails? }
ResultItems ==
    {Obj(WithOptional(WithOptional([name |-> Str(<<"a">>)], "videoId", v), "thumbnails", t)) :
        v \in {Absent, Str(<<>>), Str(<<"v", "1">>)},
        t \in
            {Absent, Undefined, Arr(<<>>),
             Arr(<<Descriptor(Str(<<"a", "/">>), 1)>>),
             Arr(<<Descriptor(Str(<<"a", "/">>), 1), Descriptor(Absent, 2)>>),
             Arr(<<Descriptor(Str(<<LoneSurrogate>>), 1)>>)}}

\* what processResults may be handed
ResultInputs == {Arr(items) : items \in SeqsOf(ResultItems, 0, MaxItems)}

\* thumbnail lists of the objects handed to proxyAllThumbnails
SomeThumbnails ==
    {Arr(<<>>),
     Arr(<<Descriptor(Str(<<"a", "/">>), 1)>>),
     Arr(<<Descriptor(Absent, 1),
           Descriptor(Str(<<"h", "t", "t", "p", "s", ":", "/", "/", "l", "h", "3", ".", "g", "o", "o", "g", "l", "e", "u", "s", "e", "r", "c", "o", "n", "t", "e", "n", "t", ".", "c", "o", "m", "/", "a", "=", "w", "6", "0", "-", "h", "6", "0", "-", "l", "9", "0", "-", "r", "j">>), 2)>>),
     Arr(<<Descriptor(Str(<<LoneSurrogate>>), 1)>>)}

\* objects without nested objects: { name, thumbnails? }
FlatObjects ==
    {Obj(WithOptional([name |-> Str(<<"a">>)], "thumbnails", t)) :
        t \in {Absent, Undefined, Str(<<"a">>)} \cup SomeThumbnails}

\* what proxyAllThumbnails may be handed: scalars, flat objects, arrays of
\* them, objects that nest them (an album with tracks and an artist), and an
\* object whose thumbnails is an object
NestedInputs ==
    {Undefined, [kind |-> "null"], Str(<<"a">>), Num(0)}
        \cup FlatObjects
        \cup {Arr(items) : items \in SeqsOf(FlatObjects, 0, MaxItems)}
        \cup {Obj([thumbnails |-> t, tracks |-> Arr(<<x>>), artist |-> y]) :
                 t \in SomeThumbnails, x \in FlatObjects, y \in FlatObjects}
        \cup {Obj([thumbnails |-> x]) : x \in FlatObjects}

\* processThumbnails is called: `after` is the caller's argument afterwards
\* (the map and the spread build new objects)
CallProcessThumbnails ==
    /\ rw.pc = "idle"
    /\ \E thumbnails \in ThumbnailInputs :
         rw' = [pc |-> "done", op |-> "processThumbnails", input |-> thumbnails,
                output |-> processThumbnails(thumbnails, BaseUrl),
                after |-> thumbnails]
    /\ UNCHANGED <<ytVars, mirVars, req, gatewayVars, limiter, now>>

\* processResults is called
CallProcessResults ==
    /\ rw.pc = "idle"
    /\ \E items \in ResultInputs :
         LET r == processResults(items, BaseUrl)
         IN  rw' = [pc |-> "done", op |-> "processResults", input |-> items,
                    output |-> r.value, after |-> r.items]
    /\ UNCHANGED <<ytVars, mirVars, req, gatewayVars, limiter, now>>

\* proxyAllThumbnails is called
CallProxyAllThumbnails ==
    /\ rw.pc = "idle"
    /\ \E obj \in NestedInputs :
         rw' = [pc |-> "done", op |-> "proxyAllThumbnails", input |-> obj,
                output |-> proxyAllThumbnails(obj, BaseUrl),
                after |-> obj]
    /\ UNCHANGED <<ytVars, mirVars, req, gatewayVars, limiter, now>>

NextRewriter ==
    \/ CallProcessThumbnails
    \/ CallProcessResults
    \/ CallProxyAllThumbnails

SpecRewriter == Init /\ [][NextRewriter]_vars

(***************************************************************************)
(* Properties of getYouTubeInfo (checked under SpecResolver).              *)
(***************************************************************************)

\* C1: when every upstream attempt fails, a call with retryCount >= 1 makes
\* exactly retryCount attempts and then throws, and what it throws is the
\* error of the last attempt made (attempt number retryCount).
C1_ThrowsLastErrorAfterAllAttempts ==
    \A c \in Calls :
        /\ yt[c].attempts <= yt[c].retryCount
        /\ yt[c].pc = "thrown" =>
              /\ yt[c].attempts = yt[c].retryCount
              /\ ~yt[c].attemptOk
              /\ yt[c].thrown = yt[c].attemptError
              /\ yt[c].thrown.origin = "youtube"
              /\ yt[c].thrown.attempt = yt[c].retryCount

\* a call with the default retryCount has thrown, its five failures being of
\* different classes
C1_Witness ==
    \E c \in Calls :
        /\ yt[c].pc = "thrown"
        /\ yt[c].retryCount = DefaultRetryCount
        /\ yt[c].thrown.statusCode = 403

\* C2 (as claimed): a backoff wait is only ever slept when another attempt
\* follows it, i.e. never after the failure of attempt number retryCount.
C2_NoWaitAfterFinalAttempt ==
    \A c \in Calls :
        yt[c].pc = "waiting" => yt[c].i < yt[c].retryCount - 1

\* C3: a call whose k-th attempt (k <= retryCount) succeeds after k-1
\* failures returns successfully, and for any mix of failure classes every
\* wait is at least as long as the wait before it.
C3_SucceedsAndWaitsNonDecreasing ==
    \A c \in Calls :
        /\ yt[c].attemptOk => /\ yt[c].pc = "returned"
                              /\ yt[c].attempts <= yt[c].retryCount
                              /\ yt[c].thrown = NoError
        /\ yt[c].pc = "waiting" => yt[c].waitTime >= yt[c].prevWait

\* a call succeeded on its fifth attempt after four waits, and a call is in
\* a wait that equals the wait before it
C3_Witness ==
    /\ \E c \in Calls :
          /\ yt[c].pc = "returned"
          /\ yt[c].attempts = 5
          /\ yt[c].waits = 4
    /\ \E c \in Calls :
          /\ yt[c].pc = "waiting"
          /\ yt[c].waits >= 2
          /\ yt[c].waitTime = yt[c].prevWait

\* C4: once an attempt has succeeded the call is over: it has returned the
\* identity that attempt sent upstream, and from then on it makes no
\* attempt, draws no identity and sleeps no wait.
C4_FirstSuccessEndsCall ==
    /\ [](\A c \in Calls :
            yt[c].pc = "returned" =>
                yt[c].result.clientName = yt[c].request)
    /\ [][\A c \in Calls :
            yt[c].attemptOk =>
                /\ yt'[c].attempts = yt[c].attempts
                /\ yt'[c].draws = yt[c].draws
                /\ yt'[c].waits = yt[c].waits
                /\ yt'[c].pc = "returned"
                /\ yt'[c].result = yt[c].result]_vars

\* a call has returned from its third attempt while the other call has
\* drawn identities in between
C4_Witness ==
    \E c \in Calls :
        /\ yt[c].pc = "returned"
        /\ yt[c].attempts = 3
        /\ yt[c].result.clientName # YOUTUBE_CLIENTS[3]

(***************************************************************************)
(* Properties of the route handlers (checked under Spec).                  *)
(***************************************************************************)

\* C5: when getYouTubeInfo threw and getStreamFromInvidious returned null,
\* the error the handler raises into its outer catch is the error
\* getYouTubeInfo threw, the error of its fifth and last attempt, never an
\* error of a mirror; /api/stream answers 500 with that error's message,
\* /api/proxy answers 500 'Failed to proxy stream'.
C5_OriginalErrorSurfaced ==
    \A c \in Calls :
        (/\ req[c].pc = "done"
         /\ yt[c].pc = "thrown"
         /\ mir[c].pc = "returned"
         /\ mir[c].result = NullStream) =>
            /\ req[c].error = yt[c].thrown
            /\ req[c].error.origin = "youtube"
            /\ req[c].error.attempt = yt[c].retryCount
            /\ req[c].response.status = 500
            /\ req[c].sent = 1
            /\ req[c].route = "stream" => req[c].response.message = yt[c].thrown
            /\ req[c].route = "proxy" => req[c].response.body = "Failed to proxy stream"

\* a request to /api/stream has been answered 500 after the fifth attempt
\* failed with a 403 and no mirror gave a stream
C5_Witness ==
    \E c \in Calls :
        /\ req[c].pc = "done"
        /\ req[c].route = "stream"
        /\ yt[c].pc = "thrown"
        /\ yt[c].thrown = UpstreamError(5, 403)
        /\ mir[c].pc = "returned"
        /\ mir[c].result = NullStream
        /\ req[c].response.status = 500

\* C6 (as claimed): a request for which getStreamFromInvidious has been
\* called is a request whose getYouTubeInfo threw; after a successful
\* getYouTubeInfo no mirror is queried.
C6_MirrorsOnlyAfterResolverFailed ==
    \A c \in Calls :
        (req[c].route # "" /\ mir[c].pc # "idle") =>
            /\ yt[c].pc = "thrown"
            /\ ~yt[c].attemptOk

(***************************************************************************)
(* Properties of getStreamFromInvidious (checked under SpecMirror).        *)
(***************************************************************************)

\* C7 (as claimed): a call that returns null has queried every Piped and
\* every Invidious instance exactly once, none twice, however the calls in
\* flight interleave.
C7_EveryInstanceExactlyOnce ==
    \A c \in Calls :
        (mir[c].pc = "returned" /\ mir[c].result = NullStream) =>
            /\ mir[c].queries.piped = Len(PIPED_INSTANCES)
            /\ mir[c].queries.invidious = Len(INVIDIOUS_INSTANCES)
            /\ ~mir[c].repeated

\* C8: a call queries no Invidious instance before its five Piped queries
\* have all completed without a stream, and a call that got its stream from
\* a Piped instance has queried no Invidious instance and queries nothing
\* after returning.
C8_PipedBeforeInvidious ==
    /\ [](\A c \in Calls :
            /\ mir[c].queries.invidious > 0 =>
                  /\ mir[c].queries.piped = Len(PIPED_INSTANCES)
                  /\ mir[c].failed >= Len(PIPED_INSTANCES)
            /\ mir[c].pc = "piped" =>
                  /\ mir[c].queries.invidious = 0
                  /\ mir[c].failed = mir[c].queries.piped - 1
            /\ mir[c].result.method = "piped" =>
                  /\ mir[c].pc = "returned"
                  /\ mir[c].queries.invidious = 0
                  /\ mir[c].failed = mir[c].queries.piped - 1)
    /\ [][\A c \in Calls :
            mir[c].pc = "returned" => mir'[c].queries = mir[c].queries]_vars

\* one call is querying Invidious after five Piped failures while the other
\* has returned the stream its third Piped query gave
C8_Witness ==
    \E c, d \in Calls :
        /\ mir[c].pc = "invidious"
        /\ mir[c].failed = Len(PIPED_INSTANCES)
        /\ mir[d].result.method = "piped"
        /\ mir[d].queries.piped = 3

\* C9: a non-null result carries the ecosystem and the base URL of the
\* instance whose response gave the stream, and the url of that response's
\* audio entry of greatest bitrate (absent counting as 0), the earliest one
\* among equals.
C9_ResultTaggedAndBest ==
    \A c \in Calls :
        mir[c].result.success =>
            /\ mir[c].result.method = mir[c].source.method
            /\ mir[c].result.instance = mir[c].source.instance
            /\ mir[c].result.url = mir[c].source.best
            /\ mir[c].source.best # 0
            /\ mir[c].result.method = "piped" =>
                  \E k \in DOMAIN PIPED_INSTANCES :
                      mir[c].result.instance = PIPED_INSTANCES[k]
            /\ mir[c].result.method = "invidious" =>
                  \E k \in DOMAIN INVIDIOUS_INSTANCES :
                      mir[c].result.instance = INVIDIOUS_INSTANCES[k]

\* Piped failed five times and the second Invidious instance queried gave
\* the stream, its second entry being the best; the cursor had been moved
\* by the other call
C9_Witness ==
    \E c \in Calls :
        /\ mir[c].result.success
        /\ mir[c].result.method = "invidious"
        /\ mir[c].failed = Len(PIPED_INSTANCES) + 1
        /\ mir[c].result.url = 2
        /\ mir[c].result.instance # INVIDIOUS_INSTANCES[2]

\* C10: the call never throws: a transport error, a malformed response or a
\* response without audio only moves the call on to the next instance, and
\* after the twelfth failure the call returns null.
C10_NeverThrowsReturnsNull ==
    \A c \in Calls :
        /\ mir[c].pc # "thrown"
        /\ mir[c].pc \in {"piped", "invidious"} =>
              /\ mir[c].queries.piped + mir[c].queries.invidious = mir[c].failed + 1
              /\ mir[c].failed < Len(PIPED_INSTANCES) + Len(INVIDIOUS_INSTANCES)
        /\ mir[c].pc = "returned" =>
              IF mir[c].failed = Len(PIPED_INSTANCES) + Len(INVIDIOUS_INSTANCES)
              THEN mir[c].result = NullStream
              ELSE /\ mir[c].result.success
                   /\ mir[c].queries.piped + mir[c].queries.invidious = mir[c].failed + 1

\* a call has returned null after twelve failed queries
C10_Witness ==
    \E c \in Calls :
        /\ mir[c].pc = "returned"
        /\ mir[c].result = NullStream
        /\ mir[c].failed = Len(PIPED_INSTANCES) + Len(INVIDIOUS_INSTANCES)

(***************************************************************************)
(* Properties of getNextClient and of the backoff schedule (checked under  *)
(* SpecResolver).                                                          *)
(***************************************************************************)
RECURSIVE DrawsOf(_)
\* the calls of getNextClient made by the calls S
DrawsOf(S) ==
    IF S = {} THEN 0
    ELSE LET c == CHOOSE c \in S : TRUE IN yt[c].draws + DrawsOf(S \ {c})

\* the calls of getNextClient made process-wide
TotalDraws == DrawsOf(Calls)

\* C11: the cursor is always an index in 0..5; a call of getNextClient
\* returns the identity at the cursor's value before the call and leaves the
\* cursor at (old value + 1) mod 6, so the k-th call made process-wide, in
\* any interleaving of the calls of getYouTubeInfo, returns identity number
\* (k-1) mod 6 of the list.
C11_RoundRobinCursor ==
    /\ [](/\ clientIndex \in 0..5
          /\ clientIndex = TotalDraws % 6)
    /\ [][\A c \in Calls :
            yt'[c].draws # yt[c].draws =>
                /\ yt'[c].draws = yt[c].draws + 1
                /\ TotalDraws' = TotalDraws + 1
                /\ yt'[c].request = YOUTUBE_CLIENTS[(TotalDraws % 6) + 1]
                /\ yt'[c].request = YOUTUBE_CLIENTS[clientIndex + 1]
                /\ clientIndex' = (clientIndex + 1) % 6]_vars

\* the eighth call made process-wide, after the two calls of getYouTubeInfo
\* took turns, has returned the second identity of the list
C11_Witness ==
    /\ TotalDraws = 8
    /\ clientIndex = 2
    /\ \E c \in Calls :
          /\ yt[c].pc = "getInfo"
          /\ yt[c].draws = 3
          /\ yt[c].request = YOUTUBE_CLIENTS[2]

\* C17: the wait after the failed attempt of index i that another attempt
\* follows is 2000 * 2^i ms when the failure carried status 429 and
\* 1000 * 2^i ms for a 403 or any other failure, and exactly one wait lies
\* between two consecutive attempts.
C17_BackoffSchedule ==
    /\ [](\A c \in Calls :
            /\ (yt[c].pc = "waiting" /\ yt[c].i < yt[c].retryCount - 1) =>
                  yt[c].waitTime =
                      IF yt[c].attemptError.statusCode = 429
                      THEN 2000 * Pow2(yt[c].i)
                      ELSE 1000 * Pow2(yt[c].i)
            /\ yt[c].pc = "getInfo" =>
                  /\ yt[c].attempts = yt[c].i + 1
                  /\ yt[c].waits = yt[c].i)
    /\ [][\A c \in Calls :
            /\ yt'[c].attempts # yt[c].attempts /\ yt[c].attempts > 0 =>
                  /\ yt[c].pc = "waiting"
                  /\ yt'[c].waits = yt[c].waits
            /\ yt'[c].waits # yt[c].waits =>
                  /\ yt[c].pc = "getInfo"
                  /\ yt'[c].waits = yt[c].waits + 1
                  /\ yt'[c].attempts = yt[c].attempts]_vars

\* a call waits 16000 ms after its fourth attempt failed with a 429 while
\* the other waits 2000 ms after its second attempt failed with a 403
C17_Witness ==
    \E c, d \in Calls :
        /\ yt[c].pc = "waiting" /\ yt[c].i = 3 /\ yt[c].retryCount = 5
        /\ yt[c].attemptError.statusCode = 429 /\ yt[c].waitTime = 16000
        /\ yt[d].pc = "waiting" /\ yt[d].i = 1 /\ yt[d].retryCount > 2
        /\ yt[d].attemptError.statusCode = 403 /\ yt[d].waitTime = 2000

(***************************************************************************)
(* Further properties of the route handlers (checked under Spec).          *)
(***************************************************************************)

\* C18: a request to /api/proxy/:videoId gets at most one response, bytes
\* of the stream, a redirect to a mirror URL or an error status, and a
\* request that has ended got exactly one; a failure while nothing has been
\* sent is answered with an error status, and once headers are out no step
\* sends another response.
C18_ProxyAtMostOneResponse ==
    /\ [](\A c \in Calls :
            req[c].route = "proxy" =>
                /\ req[c].sent <= 1
                /\ req[c].sent = 1 <=> req[c].headersSent
                /\ req[c].pc \in {"done", "errored"} => req[c].sent = 1
                /\ req[c].sent = 1 => req[c].response.status \in {200, 302, 404, 500}
                /\ req[c].response.status = 302 =>
                      /\ mir[c].result.success
                      /\ req[c].response.url.entry = mir[c].result.url
                /\ (req[c].pc = "done" /\ mir[c].pc = "returned"
                        /\ mir[c].result = NullStream) =>
                      req[c].response.status = 500)
    /\ [][\A c \in Calls :
            req[c].route = "proxy" =>
                /\ (req[c].pc = "streaming" /\ ~req[c].headersSent
                        /\ req'[c].pc = "done") =>
                      /\ req'[c].response.status = 500
                      /\ req'[c].sent = 1
                /\ req[c].headersSent =>
                      /\ req'[c].headersSent
                      /\ req'[c].response = req[c].response
                      /\ req'[c].sent = req[c].sent]_vars

\* the stream of a proxy request failed after its bytes had started to go
\* out: the request is over with the one response it had
C18_Witness ==
    \E c \in Calls :
        /\ req[c].route = "proxy"
        /\ req[c].pc = "errored"
        /\ req[c].response.status = 200
        /\ req[c].sent = 1

C15_InputUnchanged ==
    (rw.pc = "done" /\ rw.op \in {"processResults", "proxyAllThumbnails"}) =>
        rw.after = rw.input

\* C16: an item handed to processResults without thumbnails (absent or an
\* empty list) and with a videoId comes out with exactly two thumbnails,
\* 320x180 then 480x360, both with image-proxy urls of the item's mqdefault
\* and hqdefault pictures; an item that has a thumbnail comes out with as
\* many as it had
C16_TwoSyntheticThumbnails ==
    (rw.pc = "done" /\ rw.op = "processResults" /\ rw.output.kind = "array") =>
        \A k \in DOMAIN rw.input.items :
            LET in == rw.input.items[k]
                had == Get(in, "thumbnails")
                videoId == Get(in, "videoId")
                got == Get(rw.output.items[k], "thumbnails")
                prefix == BaseUrl \o PROXY_IMAGE
                query(t) == SubSeq(Get(t, "url").chars, Len(prefix) + 1, Len(Get(t, "url").chars))
                picture(name) ==
                    <<"h", "t", "t", "p", "s", ":", "/", "/", "i", ".", "y", "t", "i", "m", "g", ".", "c", "o", "m", "/", "v", "i", "/">>
                        \o videoId.chars \o <<"/">> \o name
                        \o <<"d", "e", "f", "a", "u", "l", "t", ".", "j", "p", "g">>
            IN  /\ ((had.kind # "array" \/ Len(had.items) = 0)
                        /\ videoId.kind = "string" /\ Len(videoId.chars) > 0) =>
                      /\ got.kind = "array" /\ Len(got.items) = 2
                      /\ Get(got.items[1], "width") = Num(320)
                      /\ Get(got.items[1], "height") = Num(180)
                      /\ Get(got.items[2], "width") = Num(480)
                      /\ Get(got.items[2], "height") = Num(360)
                      /\ \A n \in 1..2 :
                           /\ Get(got.items[n], "url").kind = "string"
                           /\ SubSeq(Get(got.items[n], "url").chars, 1, Len(prefix)) = prefix
                      /\ DecodeChars(query(got.items[1])) = picture(<<"m", "q">>)
                      /\ DecodeChars(query(got.items[2])) = picture(<<"h", "q">>)
                /\ (had.kind = "array" /\ Len(had.items) > 0) =>
                      got.kind = "array" /\ Len(got.items) = Len(had.items)

\* processResults has returned a list whose first item had a videoId and no
\* thumbnails and whose second item had a thumbnail
C16_Witness ==
    /\ rw.pc = "done" /\ rw.op = "processResults" /\ rw.output.kind = "array"
    /\ Len(rw.input.items) = 2
    /\ Get(rw.input.items[1], "thumbnails") = Undefined
    /\ Truthy(Get(rw.input.items[1], "videoId"))
    /\ Len(Get(rw.output.items[1], "thumbnails").items) = 2
    /\ Get(rw.input.items[2], "thumbnails").kind = "array"
    /\ Len(Get(rw.input.items[2], "thumbnails").items) = 1

(***************************************************************************)
(* Properties of the rate limiter (under SpecLimiter and SpecCatalog)      *)
(***************************************************************************)
\* C12: for each origin, the verdict on its latest request is admission
\* exactly when the request is among the first 30 of its window, a window
\* being the 60000 ms that start with its first request; and a request that
\* arrives when the window has elapsed is admitted and starts a window
C12_ThirtyPerWindow ==
    /\ [](\A o \in Origins :
            limiter[o].last # "none" =>
                /\ limiter[o].firstAt <= limiter[o].lastAt
                /\ limiter[o].lastAt < limiter[o].firstAt + 60000
                /\ (limiter[o].last = "admitted") <=> (limiter[o].hits <= 30))
    /\ [][\A o \in Origins :
            (limiter'[o] # limiter[o] /\ limiter[o].last # "none") =>
                IF now >= limiter[o].firstAt + 60000
                THEN limiter'[o].last = "admitted" /\ limiter'[o].hits = 1
                         /\ limiter'[o].firstAt = now
                ELSE limiter'[o].hits = limiter[o].hits + 1
                         /\ limiter'[o].firstAt = limiter[o].firstAt]_vars

\* one origin has had its 31st request of a window rejected, another has been
\* admitted again with the first request after its window elapsed
C12_Witness ==
    \E o1 \in Origins, o2 \in Origins :
        /\ limiter[o1].last = "rejected" /\ limiter[o1].hits = 31
        /\ limiter[o2].last = "admitted" /\ limiter[o2].hits = 1
        /\ limiter[o2].windows = 2 /\ limiter[o2].firstAt >= 60000

\* C13: a request that arrives from an origin which has used up its 30
\* requests of the window is answered 429 by the limiter and reaches no
\* handler: the step leaves the rotation cursor, both mirror cursors, every
\* resolver frame and the catalog gateway as they are, and its call never
\* holds a resolver frame or a gateway operation; and no step of a resolver
\* or of a handler past the arrival changes the limiter's counters
C13_RejectedReachesNoHandler ==
    /\ [](\A c \in Requests :
            req[c].route = "limiter" =>
                /\ req[c].response.status = 429 /\ req[c].sent = 1
                /\ yt[c] = YtIdle /\ mir[c] = MirIdle
                /\ req[c].gatewayOps = 0)
    /\ [][\A c \in Requests :
            (/\ Unused(c) /\ req'[c] # req[c]
             /\ limiter[OriginOf(c)].hits >= 30
             /\ now < limiter[OriginOf(c)].firstAt + 60000) =>
                /\ req'[c].route = "limiter"
                /\ UNCHANGED <<ytVars, mirVars, gatewayVars>>]_vars
    /\ [][((\A c \in Requests : ~Unused(c)) /\ <<ytVars, mirVars, req>>' # <<ytVars, mirVars, req>>) =>
                limiter' = limiter]_vars

\* the limiter has rejected the request of a call after 30 earlier requests
\* of its origin
C13_Witness ==
    \E c \in Requests :
        /\ req[c].route = "limiter" /\ req[c].response.status = 429
        /\ limiter[OriginOf(c)].hits = 31
        /\ limiter[OriginOf(c)].last = "rejected"

(***************************************************************************)
(* Properties of the catalog handlers (under SpecCatalog)                  *)
(***************************************************************************)
\* C19: /api/album attempts the playlist-style listing only when the direct
\* lookup yielded no songs and the id has a known prefix, attempts the search
\* by name only when the direct lookup and the listing both yielded no
\* tracks, and never answers with an album of the search by name when the
\* direct lookup yielded songs
C19_TiersStopAtFirstTracks ==
    \A c \in Requests :
        req[c].route = "album" =>
            /\ (\E k \in DOMAIN req[c].tiers : req[c].tiers[k] = "listing") =>
                   (req[c].direct # "some" /\ req[c].knownPrefix)
            /\ (\E k \in DOMAIN req[c].tiers : req[c].tiers[k] = "search") =>
                   (req[c].direct # "some" /\ req[c].listing # "some")
            /\ req[c].album.from = "search" => req[c].direct # "some"

\* C20: while isInitialized is false no handler invokes an operation of the
\* catalog gateway, and a request that arrives then at /api/search,
\* /api/song, /api/artist, /api/album or /api/playlist is answered 503 at
\* once, no frame of it being kept
C20_NoGatewayUseBeforeReady ==
    /\ [](\A c \in Requests : req[c].notReadyOps = 0)
    /\ [][\A c \in Requests :
            (Unused(c) /\ ~isInitialized
                 /\ req'[c].route \in {"search", "song", "artist", "album", "playlist"}) =>
                /\ req'[c].pc = "done"
                /\ req'[c].response.status = 503
                /\ req'[c].gatewayOps = 0]_vars

(***************************************************************************)
(* Provenance of the answers of /api/stream (under Spec)                   *)
(***************************************************************************)
\* C21 (as claimed): the source of every successful /api/stream response
\* names the upstream that supplied the URL: "YouTube (ytdl-core)" with this
\* server's own /api/proxy/<id> as url when getYouTubeInfo succeeded, and
\* otherwise the ecosystem (Piped or Invidious) and the instance recorded in
\* the result of getStreamFromInvidious, with the mirror's direct URL as url.
C21_SourceNamesSupplier ==
    \A c \in Requests :
        (req[c].route = "stream" /\ req[c].response.status = 200) =>
            IF yt[c].pc = "returned"
            THEN /\ req[c].response.source = [label |-> "YouTube (ytdl-core)", instance |-> ""]
                 /\ req[c].response.url = [kind |-> "/api/proxy", entry |-> 0]
            ELSE /\ mir[c].result.success
                 /\ req[c].response.source.label =
                        (IF mir[c].result.method = "piped" THEN "Piped" ELSE "Invidious")
                 /\ req[c].response.source.instance = mir[c].result.instance
                 /\ req[c].response.url = [kind |-> "mirror", entry |-> mir[c].result.url]

(***************************************************************************)
(* Identities of the attempts of one call (under SpecResolver)             *)
(***************************************************************************)
\* C22 (as claimed): two consecutive attempts of the same call of
\* getYouTubeInfo use different identities, however the other calls that
\* draw from the shared cursor interleave; this is also what the pairwise
\* difference of the attempts of a call of at most 6 attempts requires of
\* neighbouring attempts.
C22_ConsecutiveAttemptsDiffer ==
    [][\A c \in Calls :
          (yt[c].pc \in {"getInfo", "waiting"} /\ yt'[c].attempts = yt[c].attempts + 1) =>
              yt'[c].request # yt[c].request]_vars

(***************************************************************************)
(* Readiness of the catalog gateway (under SpecStartup)                    *)
(***************************************************************************)
\* C23 (as claimed): isInitialized starts false, becomes true only when an
\* initialization succeeds and never returns to false; a failed
\* initialization leads to another one; and in either deployment mode, the
\* initialization being able to succeed, isInitialized becomes true at some
\* time, after which no catalog route answers 503.
C23_ReadinessReached ==
    /\ ~isInitialized
    /\ [][isInitialized' # isInitialized =>
             /\ isInitialized'
             /\ ytmusicInit = "initializing"
             /\ ytmusicInit' = "ready"]_vars
    /\ [](ytmusicInit = "retryWait" => <>(ytmusicInit = "initializing"))
    /\ [][\A c \in Requests :
            (Unused(c) /\ isInitialized
                 /\ req'[c].route \in {"search", "song", "artist", "album", "playlist"}) =>
                req'[c].response.status # 503]_vars
    /\ <>isInitialized

(***************************************************************************)
(* Termination of /api/stream and /api/proxy (under SpecResolution)        *)
(***************************************************************************)
\* C24: every outbound call settling, a request to /api/stream or
\* /api/proxy comes to its end with exactly one response, a result or an
\* error, after at most 5 attempts of getYouTubeInfo and at most 5 Piped and
\* 7 Invidious queries, whatever the other requests in flight draw.
C24_ResolutionTerminates ==
    /\ [](\A c \in Requests :
            req[c].route \in {"stream", "proxy"} =>
                /\ yt[c].attempts <= 5
                /\ mir[c].queries.piped <= 5
                /\ mir[c].queries.invidious <= 7
                /\ req[c].sent <= 1
                /\ req[c].pc \in {"done", "errored"} => req[c].sent = 1)
    /\ \A c \in Requests :
          req[c].route \in {"stream", "proxy"} ~> req[c].pc \in {"done", "errored"}

\* a request to /api/stream has been answered 500 after its five attempts
\* and its twelve mirror queries failed, other requests having drawn
\* identities and Piped instances in the meantime
C24_Witness ==
    \E c \in Requests :
        /\ req[c].route = "stream"
        /\ req[c].pc = "done"
        /\ req[c].sent = 1
        /\ req[c].response.status = 500
        /\ yt[c].pc = "thrown"
        /\ mir[c].pc = "returned"
        /\ mir[c].result = NullStream
        /\ clientIndex = 2
        /\ pipedIndex = 3

====
